---- MODULE Spec2Model ----
(***************************************************************************)
(* Radiology review backend (flower-hackathon-2025): the persistence of    *)
(* dual-model predictions and doctor labels (api/services), the threshold  *)
(* decisions of the dual model (api/ml/model.py) and the stratified        *)
(* patient selection of the seed generator (generate_seed_data.py).        *)
(*                                                                         *)
(* Probabilities and thresholds are integers on a grid (the code only      *)
(* compares them).  Timestamps are readings of a logical clock; None is    *)
(* the SQL NULL.                                                           *)
(***************************************************************************)
EXTENDS Integers, Sequences, FiniteSets, TLC

VARIABLES
    db,        \* the committed database: one set of rows per table
    seq,       \* the primary-key sequence of every table
    clock,     \* logical time, one tick per request
    last,      \* the outcome of the most recent request
    infer,     \* inference check: scorer outputs, threshold and the result
    sampler,   \* stratified_patient_selection: its frame and local variables
    sess       \* concurrent requests: each session's position and pending work

vars == <<db, seq, clock, last, infer, sampler, sess>>

\* ------------------------------------------------------------------------
\* Bounds of the model
\* ------------------------------------------------------------------------
MaxOps == 3          \* requests served in one behaviour
MaxPatients == 1     \* Patient rows created
MaxImages == 2       \* Image rows created
MaxLabels == 2       \* keys in one doctor-label submission
MaxSubjects == 4     \* Patient IDs in the sampled data frame
MaxTarget == 4       \* target_count ranges over 0 .. MaxTarget
MaxListed == 2       \* Patient rows of the listed database

None == 0
NoName == "None"
DEFAULT_MODEL_VERSION == "mock_v1"
ANY_PATHOLOGY == "ANY_PATHOLOGY"
DOCTOR_EMAIL == "doctor@example.com"
UPLOAD_FILENAME == "upload.png"

Max(a, b) == IF a >= b THEN a ELSE b
Min(a, b) == IF a <= b THEN a ELSE b

\* ------------------------------------------------------------------------
\* Tables
\* ------------------------------------------------------------------------
Tables == {"patient", "exam", "image", "pathology", "modelversion", "user",
           "predictedlabel", "doctorlabel"}

EmptyDb == [t \in Tables |-> {}]

\* The rows init_pathologies seeds (three of its sixteen entries).
PATHOLOGIES ==
    << [code |-> ANY_PATHOLOGY, display_name |-> "Any Pathology"],
       [code |-> "CARDIOMEGALY", display_name |-> "Cardiomegaly"],
       [code |-> "EFFUSION", display_name |-> "Effusion"] >>

\* The label list of the multi-label scorer (two of its entries).  It comes
\* from the scorer's weights, not from the catalog: the codes are those of
\* PATHOLOGY_CODES (api/constants.py), "Effusion" where the catalog row has
\* code "EFFUSION" and display name "Effusion".
multilabel_pathologies == << "Effusion", "Mass" >>

\* session.add + flush of a new row: the sequence supplies the primary key.
\* A state is a record [t |-> tables, q |-> sequences].
Insert(st, tbl, row) ==
    LET id == st.q[tbl]
    IN  [t |-> [st.t EXCEPT ![tbl] = @ \cup {[id |-> id] @@ row}],
         q |-> [st.q EXCEPT ![tbl] = @ + 1]]

\* Assignment to attributes of a loaded row, written at the next flush.
Update(st, tbl, old, new) ==
    [st EXCEPT !.t[tbl] = (@ \ {old}) \cup {new}]

\* The result of a query that found no row (Python's None); ids start at 1.
NoRow == [id |-> None]
Found(row) == row.id # None

\* .first() of a query with no ORDER BY: the row of least id, or no row.
First(rows) ==
    IF rows = {} THEN NoRow
    ELSE CHOOSE r \in rows : \A o \in rows : r.id <= o.id

\* session.get(Model, id)
Get(st, tbl, id) == First({r \in st.t[tbl] : r.id = id})

\* ------------------------------------------------------------------------
\* DualXRayModel (api/ml/model.py)
\* ------------------------------------------------------------------------
predict_binary_gt(probability, threshold) ==
    LET has_finding == probability > threshold
    IN  [label |-> IF has_finding THEN "Finding" ELSE "No Finding",
         probability |-> probability, has_finding |-> has_finding]

predict_binary(probability, threshold) ==
    LET has_finding == probability >= threshold
    IN  [label |-> IF has_finding THEN "Finding" ELSE "No Finding",
         probability |-> probability, has_finding |-> has_finding]

\* The result keeps the order of multilabel_pathologies (a dict in insertion
\* order): a sequence of entries, one per code.
predict_multilabel(probabilities, threshold) ==
    [i \in DOMAIN probabilities |->
        [code |-> multilabel_pathologies[i],
         predicted_label |-> probabilities[i] > threshold,
         probability |-> probabilities[i]]]

predict_all(multi, binary, threshold) ==
    [binary_prediction |-> predict_binary(binary, threshold),
     multi_label_predictions |-> predict_multilabel(multi, threshold),
     threshold |-> threshold]

\* ------------------------------------------------------------------------
\* Unit of work: a session's view st (tables and sequences, own writes
\* included) and the committed tables cm.  Sequences are not transactional.
\* ------------------------------------------------------------------------
Begin(tables, sequences) == [st |-> [t |-> tables, q |-> sequences], cm |-> tables]

Commit(u) == [u EXCEPT !.cm = u.st.t]

CloseCommitting(u) == [u EXCEPT !.cm = u.st.t]

\* Closing the session of a request that raised discards what was not
\* committed (get_session: `with Session(engine) as session`).
Close(u) == [u EXCEPT !.st.t = u.cm]

ResolveName(model_version_name) ==
    IF model_version_name = NoName THEN DEFAULT_MODEL_VERSION ELSE model_version_name

\* select(ModelVersion).where(ModelVersion.name == name).first()
SelectModelVersion(st, name) ==
    First({m \in st.t["modelversion"] : m.name = name})

\* select(Pathology).where(Pathology.code == code).first()
SelectPathologyByCode(st, code) ==
    First({p \in st.t["pathology"] : p.code = code})

\* select(Pathology).where(Pathology.display_name == name).first()
SelectPathologyByName(st, name) ==
    First({p \in st.t["pathology"] : p.display_name = name})

\* select(ImagePredictedLabel).where(image_id, model_version_id, pathology_id).first()
SelectPrediction(st, image_id, mv_id, pathology_id) ==
    First({r \in st.t["predictedlabel"] :
              /\ r.image_id = image_id
              /\ r.model_version_id = mv_id
              /\ r.pathology_id = pathology_id})

NewPrediction(image_id, mv_id, pathology_id, probability, predicted_label) ==
    [image_id |-> image_id, model_version_id |-> mv_id, pathology_id |-> pathology_id,
     probability |-> probability, predicted_label |-> predicted_label]

\* ------------------------------------------------------------------------
\* PredictionService (api/services/prediction_service.py)
\* ------------------------------------------------------------------------
\* The row is added and committed at once; the result is [u, mv].
Prediction_get_or_create_model_version(u, name) ==
    LET found == SelectModelVersion(u.st, name)
    IN  IF Found(found) THEN [u |-> u, mv |-> found]
        ELSE LET st2 == Insert(u.st, "modelversion", [name |-> name])
                 u2 == Commit([u EXCEPT !.st = st2])
             IN  [u |-> u2, mv |-> SelectModelVersion(st2, name)]

save_binary_always_insert(st, image_id, mv, binary_pred) ==
    LET any_pathology == SelectPathologyByCode(st, ANY_PATHOLOGY)
    IN  IF Found(any_pathology)
        THEN Insert(st, "predictedlabel",
                    NewPrediction(image_id, mv.id, any_pathology.id,
                                  binary_pred.probability, binary_pred.has_finding))
        ELSE st

_save_binary_prediction(st, image_id, mv, binary_pred) ==
    LET any_pathology == SelectPathologyByCode(st, ANY_PATHOLOGY)
    IN  IF Found(any_pathology)
        THEN LET existing_pred == SelectPrediction(st, image_id, mv.id, any_pathology.id)
             IN  IF Found(existing_pred)
                 THEN Update(st, "predictedlabel", existing_pred,
                             [existing_pred EXCEPT
                                 !.probability = binary_pred.probability,
                                 !.predicted_label = binary_pred.has_finding])
                 ELSE Insert(st, "predictedlabel",
                             NewPrediction(image_id, mv.id, any_pathology.id,
                                           binary_pred.probability,
                                           binary_pred.has_finding))
        ELSE st

SaveMultiLabelEntryCreating(acc, image_id, mv, pred) ==
    LET st == IF Found(SelectPathologyByCode(acc.st, pred.code)) THEN acc.st
              ELSE Insert(acc.st, "pathology",
                          [code |-> pred.code, display_name |-> pred.code])
        pathology == SelectPathologyByCode(st, pred.code)
    IN  [st |-> Insert(st, "predictedlabel",
                       NewPrediction(image_id, mv.id, pathology.id,
                                     pred.probability, pred.predicted_label)),
         saved |-> Append(acc.saved, st.q["predictedlabel"])]

\* One iteration of the loop over multi_label_predictions.items(); acc is
\* [st, saved], saved the list of ids collected so far.
SaveMultiLabelEntry(acc, image_id, mv, pred) ==
    LET st == acc.st
        pathology == SelectPathologyByCode(st, pred.code)
    IN  IF ~Found(pathology) THEN acc
        ELSE LET existing_pred == SelectPrediction(st, image_id, mv.id, pathology.id)
             IN  IF Found(existing_pred)
                 THEN [st |-> Update(st, "predictedlabel", existing_pred,
                                     [existing_pred EXCEPT
                                         !.probability = pred.probability,
                                         !.predicted_label = pred.predicted_label]),
                       saved |-> Append(acc.saved, existing_pred.id)]
                 ELSE [st |-> Insert(st, "predictedlabel",
                                     NewPrediction(image_id, mv.id, pathology.id,
                                                   pred.probability, pred.predicted_label)),
                       saved |-> Append(acc.saved, st.q["predictedlabel"])]

RECURSIVE SaveMultiLabelFrom(_, _, _, _, _)
SaveMultiLabelFrom(acc, image_id, mv, preds, i) ==
    IF i > Len(preds) THEN acc
    ELSE SaveMultiLabelFrom(SaveMultiLabelEntry(acc, image_id, mv, preds[i]),
                            image_id, mv, preds, i + 1)

_save_multi_label_predictions(st, image_id, mv, multi_label_predictions) ==
    SaveMultiLabelFrom([st |-> st, saved |-> << >>], image_id, mv,
                       multi_label_predictions, 1)

predict_and_save_reopening(u, image_id, threshold, model_version_name, scores) ==
    LET image == Get(u.st, "image", image_id)
    IN  IF ~Found(image)
        THEN [u |-> Close(u), status |-> 404, op |-> "predict_and_save",
              image_id |-> image_id]
        ELSE LET name == ResolveName(model_version_name)
                 g == Prediction_get_or_create_model_version(u, name)
                 predictions == predict_all(scores.multi, scores.binary, threshold)
                 st1 == _save_binary_prediction(g.u.st, image_id, g.mv,
                                                predictions.binary_prediction)
                 m == _save_multi_label_predictions(st1, image_id, g.mv,
                                                    predictions.multi_label_predictions)
                 st2 == Update(m.st, "image", image, [image EXCEPT !.reviewed_at = None])
             IN  [u |-> Commit([g.u EXCEPT !.st = st2]), status |-> 200,
                  op |-> "predict_and_save", image_id |-> image_id,
                  model_version |-> name, model_version_id |-> g.mv.id,
                  predictions |-> predictions, saved_prediction_ids |-> m.saved]

predict_and_save_version_first(u, image_id, threshold, model_version_name, scores) ==
    LET image == Get(u.st, "image", image_id)
        name == ResolveName(model_version_name)
        g == Prediction_get_or_create_model_version(u, name)
    IN  IF ~Found(image)
        THEN [u |-> Close(g.u), status |-> 404, op |-> "predict_and_save",
              image_id |-> image_id]
        ELSE LET predictions == predict_all(scores.multi, scores.binary, threshold)
                 st1 == _save_binary_prediction(g.u.st, image_id, g.mv,
                                                predictions.binary_prediction)
                 m == _save_multi_label_predictions(st1, image_id, g.mv,
                                                    predictions.multi_label_predictions)
             IN  [u |-> Commit([g.u EXCEPT !.st = m.st]), status |-> 200,
                  op |-> "predict_and_save", image_id |-> image_id,
                  model_version |-> name, model_version_id |-> g.mv.id,
                  predictions |-> predictions, saved_prediction_ids |-> m.saved]

\* The request: [u, status, ...].  scores is what the two scorers return for
\* the image: [binary, multi].
predict_and_save(u, image_id, threshold, model_version_name, scores) ==
    LET image == Get(u.st, "image", image_id)
    IN  IF ~Found(image)
        THEN [u |-> Close(u), status |-> 404, op |-> "predict_and_save",
              image_id |-> image_id]
        ELSE LET name == ResolveName(model_version_name)
                 g == Prediction_get_or_create_model_version(u, name)
                 predictions == predict_all(scores.multi, scores.binary, threshold)
                 st1 == _save_binary_prediction(g.u.st, image_id, g.mv,
                                                predictions.binary_prediction)
                 m == _save_multi_label_predictions(st1, image_id, g.mv,
                                                    predictions.multi_label_predictions)
             IN  [u |-> Commit([g.u EXCEPT !.st = m.st]), status |-> 200,
                  op |-> "predict_and_save", image_id |-> image_id,
                  model_version |-> name, model_version_id |-> g.mv.id,
                  predictions |-> predictions, saved_prediction_ids |-> m.saved]

\* ------------------------------------------------------------------------
\* PatientService (api/services/patient_service.py)
\* ------------------------------------------------------------------------
\* The new row is flushed, not committed.  ModelVersion.name carries no
\* unique constraint, so the flush raises no duplicate-key error and the
\* except branch (rollback and query again) is never entered.
Patient_get_or_create_model_version(u, name) ==
    LET found == SelectModelVersion(u.st, name)
    IN  IF Found(found) THEN [u |-> u, mv |-> found]
        ELSE LET st2 == Insert(u.st, "modelversion", [name |-> name])
             IN  [u |-> [u EXCEPT !.st = st2], mv |-> SelectModelVersion(st2, name)]

\* select(User).where(User.email == "doctor@example.com").first()
SelectDoctor(st) == First({d \in st.t["user"] : d.email = DOCTOR_EMAIL})

\* One request at a time never loses the insert race on User.email.  The
\* flush raises when the key the sequence supplies is the id of a row that
\* was inserted with an explicit id (init_default_user): the except branch
\* rolls back, finds no doctor and raises again; the sequence has advanced.
_get_or_create_default_doctor(u) ==
    LET found == SelectDoctor(u.st)
    IN  IF Found(found) THEN [u |-> u, doctor |-> found]
        ELSE IF \E d \in u.st.t["user"] : d.id = u.st.q["user"]
        THEN [u |-> Close([u EXCEPT !.st.q["user"] = @ + 1]), doctor |-> NoRow]
        ELSE LET st2 == Insert(u.st, "user", [email |-> DOCTOR_EMAIL])
             IN  [u |-> [u EXCEPT !.st = st2], doctor |-> SelectDoctor(st2)]

RECURSIVE SavePredictionsFrom(_, _, _, _, _)
SavePredictionsFrom(st, image_id, mv, preds, i) ==
    IF i > Len(preds) THEN st
    ELSE LET pathology == SelectPathologyByCode(st, preds[i].code)
             st2 == IF Found(pathology)
                    THEN Insert(st, "predictedlabel",
                                NewPrediction(image_id, mv.id, pathology.id,
                                              preds[i].probability,
                                              preds[i].predicted_label))
                    ELSE st
         IN  SavePredictionsFrom(st2, image_id, mv, preds, i + 1)

_save_predictions(st, image_id, mv, predictions) ==
    LET binary_pred == predictions.binary_prediction
        existing == SelectPathologyByCode(st, ANY_PATHOLOGY)
        st1 == IF Found(existing) THEN st
               ELSE Insert(st, "pathology",
                           [code |-> ANY_PATHOLOGY, display_name |-> "Any Pathology"])
        any_pathology == SelectPathologyByCode(st1, ANY_PATHOLOGY)
        st2 == Insert(st1, "predictedlabel",
                      NewPrediction(image_id, mv.id, any_pathology.id,
                                    binary_pred.probability, binary_pred.has_finding))
    IN  SavePredictionsFrom(st2, image_id, mv, predictions.multi_label_predictions, 1)

\* select(ImagePredictedLabel, Pathology).join(Pathology).where(image_id)
PredictionCodes(st, image_id) ==
    {p.code : p \in {p \in st.t["pathology"] :
        \E r \in st.t["predictedlabel"] : r.image_id = image_id /\ r.pathology_id = p.id}}

\* A dictionary keyed by code: of several rows with one code the one
\* iterated last (here: of greatest id) stays.
LastRow(rows) ==
    CHOOSE r \in rows : \A o \in rows : r.id >= o.id

_get_ml_predictions(st, image_id) ==
    [c \in PredictionCodes(st, image_id) |->
        LET r == LastRow({r \in st.t["predictedlabel"] :
                            /\ r.image_id = image_id
                            /\ SelectPathologyByCode(st, c).id = r.pathology_id})
        IN  [probability |-> r.probability, predicted_label |-> r.predicted_label]]

DoctorLabelCodes(st, image_id) ==
    {p.code : p \in {p \in st.t["pathology"] :
        \E r \in st.t["doctorlabel"] : r.image_id = image_id /\ r.pathology_id = p.id}}

_get_doctor_labels(st, image_id) ==
    [c \in DoctorLabelCodes(st, image_id) |->
        LET r == LastRow({r \in st.t["doctorlabel"] :
                            /\ r.image_id = image_id
                            /\ SelectPathologyByCode(st, c).id = r.pathology_id})
        IN  [is_present |-> r.is_present, comment |-> r.comment,
             labeled_at |-> r.labeled_at]]

\* validate_image (api/ml/preprocessing.py): the bytes open as PNG or JPEG.
validate_image(image_bytes) == image_bytes \in {"PNG", "JPEG"}

create_exam_with_image(u, patient_id, image_bytes, exam_datetime, threshold, scores, now) ==
    LET patient == Get(u.st, "patient", patient_id)
    IN  IF ~Found(patient)
        THEN [u |-> Close(u), status |-> 404, op |-> "create_exam_with_image"]
        ELSE IF ~validate_image(image_bytes)
        THEN [u |-> Close(u), status |-> 400, op |-> "create_exam_with_image"]
        ELSE LET exam_id == u.st.q["exam"]
                 st1 == Insert(u.st, "exam",
                               [patient_id |-> patient_id,
                                exam_datetime |-> IF exam_datetime # None
                                                  THEN exam_datetime ELSE now])
                 image_id == st1.q["image"]
                 st2 == Insert(st1, "image", [exam_id |-> exam_id, filename |-> UPLOAD_FILENAME,
                                             reviewed_at |-> None])
                 predictions == predict_all(scores.multi, scores.binary, threshold)
                 g == Patient_get_or_create_model_version([u EXCEPT !.st = st2],
                                                          DEFAULT_MODEL_VERSION)
                 st3 == _save_predictions(g.u.st, image_id, g.mv, predictions)
             IN  [u |-> Commit([g.u EXCEPT !.st = st3]), status |-> 200,
                  op |-> "create_exam_with_image", exam_id |-> exam_id,
                  image_id |-> image_id, model_version |-> DEFAULT_MODEL_VERSION,
                  model_version_id |-> g.mv.id, predictions |-> predictions,
                  ml_predictions |-> _get_ml_predictions(st3, image_id)]

\* select(DoctorLabel).where(image_id, model_version_id, pathology_id, labeled_by)
SelectDoctorLabel(st, image_id, mv_id, pathology_id, doctor_id) ==
    First({r \in st.t["doctorlabel"] :
              /\ r.image_id = image_id
              /\ r.model_version_id = mv_id
              /\ r.pathology_id = pathology_id
              /\ r.labeled_by = doctor_id})

\* Pathology by code, else by display name.
ResolvePathology(st, pathology_code) ==
    LET by_code == SelectPathologyByCode(st, pathology_code)
    IN  IF Found(by_code) THEN by_code ELSE SelectPathologyByName(st, pathology_code)

InsertDoctorLabel(acc, image_id, mv, doctor, item, comment, now) ==
    LET st == acc.st
        pathology == ResolvePathology(st, item.key)
    IN  IF ~Found(pathology) THEN [st |-> st, ok |-> FALSE]
        ELSE [st |-> Insert(st, "doctorlabel",
                            [image_id |-> image_id,
                             model_version_id |-> mv.id,
                             pathology_id |-> pathology.id,
                             is_present |-> item.is_present,
                             comment |-> comment,
                             labeled_by |-> doctor.id,
                             labeled_at |-> now]),
              ok |-> TRUE]

UpsertDoctorLabelKeepingFirst(acc, image_id, mv, doctor, item, comment, now) ==
    LET st == acc.st
        pathology == ResolvePathology(st, item.key)
    IN  IF ~Found(pathology) THEN [st |-> st, ok |-> FALSE]
        ELSE IF Found(SelectDoctorLabel(st, image_id, mv.id, pathology.id, doctor.id))
             THEN [st |-> st, ok |-> TRUE]
             ELSE InsertDoctorLabel(acc, image_id, mv, doctor, item, comment, now)

\* One iteration of the loop over labels.items(); acc is [st, ok].
UpsertDoctorLabel(acc, image_id, mv, doctor, item, comment, now) ==
    LET st == acc.st
        pathology == ResolvePathology(st, item.key)
    IN  IF ~Found(pathology) THEN [st |-> st, ok |-> FALSE]
        ELSE LET existing_label ==
                     SelectDoctorLabel(st, image_id, mv.id, pathology.id, doctor.id)
             IN  IF Found(existing_label)
                 THEN [st |-> Update(st, "doctorlabel", existing_label,
                                     [existing_label EXCEPT
                                         !.is_present = item.is_present,
                                         !.comment = comment,
                                         !.labeled_at = now]),
                       ok |-> TRUE]
                 ELSE [st |-> Insert(st, "doctorlabel",
                                     [image_id |-> image_id,
                                      model_version_id |-> mv.id,
                                      pathology_id |-> pathology.id,
                                      is_present |-> item.is_present,
                                      comment |-> comment,
                                      labeled_by |-> doctor.id,
                                      labeled_at |-> now]),
                       ok |-> TRUE]

\* The loop stops at the first key that resolves to no pathology
\* (HTTPException 400).
RECURSIVE UpsertDoctorLabelsFrom(_, _, _, _, _, _, _, _)
UpsertDoctorLabelsFrom(acc, image_id, mv, doctor, labels, comment, now, i) ==
    IF i > Len(labels) \/ ~acc.ok THEN acc
    ELSE UpsertDoctorLabelsFrom(
             UpsertDoctorLabel(acc, image_id, mv, doctor, labels[i], comment, now),
             image_id, mv, doctor, labels, comment, now, i + 1)

\* What a submission asks for: the pathologies its keys resolve to, each
\* with the value of the last key that names it; and the position of the
\* first key that resolves to no pathology (0 when every key resolves).
NamedPathologies(st, labels) ==
    {ResolvePathology(st, labels[i].key).id : i \in DOMAIN labels} \ {None}

LatestValue(st, labels, pathology_id) ==
    LET named == {i \in DOMAIN labels : ResolvePathology(st, labels[i].key).id = pathology_id}
    IN  labels[CHOOSE i \in named : \A j \in named : i >= j].is_present

Asked(st, labels) ==
    [p \in NamedPathologies(st, labels) |-> LatestValue(st, labels, p)]

UnknownAt(st, labels) ==
    LET unknown == {i \in DOMAIN labels : ~Found(ResolvePathology(st, labels[i].key))}
    IN  IF unknown = {} THEN 0 ELSE CHOOSE i \in unknown : \A j \in unknown : i <= j

MarkNotReviewed(st, image, now) == st

\* image.reviewed_at = datetime.now(timezone.utc); session.add(image)
MarkReviewed(st, image, now) ==
    Update(st, "image", image, [image EXCEPT !.reviewed_at = now])

update_doctor_labels(u, image_id, labels, comment, now) ==
    LET image == Get(u.st, "image", image_id)
    IN  IF ~Found(image)
        THEN [u |-> Close(u), status |-> 404, op |-> "update_doctor_labels",
              image_id |-> image_id]
        ELSE LET d == _get_or_create_default_doctor(u)
                 g == Patient_get_or_create_model_version(d.u, DEFAULT_MODEL_VERSION)
                 l == UpsertDoctorLabelsFrom([st |-> g.u.st, ok |-> TRUE], image_id,
                                             g.mv, d.doctor, labels, comment, now, 1)
             IN  IF ~Found(d.doctor)
                 THEN [u |-> Close(d.u), status |-> 500, op |-> "update_doctor_labels",
                       image_id |-> image_id]
                 ELSE IF ~l.ok
                 THEN [u |-> Close([g.u EXCEPT !.st = l.st]), status |-> 400,
                       op |-> "update_doctor_labels", image_id |-> image_id,
                       unknown_at |-> UnknownAt(g.u.st, labels)]
                 ELSE LET st2 == MarkReviewed(l.st, image, now)
                      IN  [u |-> Commit([g.u EXCEPT !.st = st2]), status |-> 200,
                           op |-> "update_doctor_labels", image_id |-> image_id,
                           labels |-> labels,
                           asked |-> Asked(g.u.st, labels), reviewed_at |-> now,
                           model_version_id |-> g.mv.id, doctor_id |-> d.doctor.id,
                           doctor_labels |-> _get_doctor_labels(st2, image_id)]

\* Images of the patient that wait for review (reviewed_at IS NULL).
PendingImages(st, patient_id) ==
    {i \in st.t["image"] :
        /\ i.reviewed_at = None
        /\ \E e \in st.t["exam"] : e.id = i.exam_id /\ e.patient_id = patient_id}

LatestExamDatetime(st, patient_id) ==
    LET exams == {e \in st.t["exam"] : e.patient_id = patient_id}
    IN  IF exams = {} THEN None
        ELSE (CHOOSE e \in exams : \A o \in exams : e.exam_datetime >= o.exam_datetime)
                 .exam_datetime

PatientData(st, patient_id) ==
    LET pending_count == Cardinality(PendingImages(st, patient_id))
    IN  [id |-> patient_id, needs_review |-> pending_count > 0,
         pending_reviews |-> pending_count,
         last_follow_up_date |-> LatestExamDatetime(st, patient_id)]

\* The sort key (not needs_review, last_follow_up_date), compared as tuples;
\* None stands for datetime.min.
KeyLess(a, b) ==
    LET ka == IF a.needs_review THEN 0 ELSE 1
        kb == IF b.needs_review THEN 0 ELSE 1
    IN  \/ ka < kb
        \/ ka = kb /\ a.last_follow_up_date < b.last_follow_up_date

\* result.sort(key=..., reverse=True): descending and stable; the unsorted
\* list is in id order.
RECURSIVE SortReverse(_)
SortReverse(rows) ==
    IF rows = {} THEN << >>
    ELSE LET top == {r \in rows : \A o \in rows : ~KeyLess(r, o)}
             head == CHOOSE r \in top : \A o \in top : r.id <= o.id
         IN  <<head>> \o SortReverse(rows \ {head})

list_patients_with_status(st) ==
    SortReverse({PatientData(st, p.id) : p \in st.t["patient"]})

\* ------------------------------------------------------------------------
\* Inputs of the requests
\* ------------------------------------------------------------------------
\* Requests use a grid of halves: the default threshold 0.5 is 1.
Thresholds == {1}
\* What the two scorers return for an image: below, at and above the
\* threshold on either path.
Scores ==
    { [binary |-> 0, multi |-> <<2, 1>>],
      [binary |-> 1, multi |-> <<1, 2>>],
      [binary |-> 2, multi |-> <<0, 0>>] }
ModelVersionNames == {NoName, "fl_round_5_resnet34"}
ImageBytes == {"PNG", "TXT"}
LabelKeys == {"EFFUSION", "Effusion", "InvalidPathology"}
Comments == {"Confirmed findings"}

\* A submitted mapping: distinct keys in insertion order, each with a boolean.
LabelSubmissions ==
    UNION {{l \in [1 .. n -> [key : LabelKeys, is_present : BOOLEAN]] :
               \A i, j \in 1 .. n : i # j => l[i].key # l[j].key} : n \in 0 .. MaxLabels}

InitSeq == [t \in Tables |-> 1]
Idle == [op |-> "none", status |-> 0]

\* ------------------------------------------------------------------------
\* Requests served one at a time
\* ------------------------------------------------------------------------
Init ==
    /\ db = EmptyDb
    /\ seq = InitSeq
    /\ clock = 0
    /\ last = Idle
    /\ infer = Idle
    /\ sampler = Idle
    /\ sess = Idle

RECURSIVE InitPathologiesFrom(_, _)
InitPathologiesFrom(st, i) ==
    IF i > Len(PATHOLOGIES) THEN st
    ELSE InitPathologiesFrom(
             IF Found(SelectPathologyByCode(st, PATHOLOGIES[i].code)) THEN st
             ELSE Insert(st, "pathology", PATHOLOGIES[i]),
             i + 1)

\* init_pathologies (api/database.py), run at start-up and by init_db.
init_pathologies ==
    LET st == InitPathologiesFrom([t |-> db, q |-> seq], 1)
    IN  /\ db' = st.t
        /\ seq' = st.q
        /\ UNCHANGED <<clock, last, infer, sampler, sess>>

\* load_seed_data, patients.json: the rows carry their ids; an id that is
\* already there is skipped.
load_seed_patients ==
    /\ db' = [db EXCEPT !["patient"] =
                  @ \cup {[id |-> i] : i \in {i \in 1 .. MaxPatients :
                                                \A p \in db["patient"] : p.id # i}}]
    /\ UNCHANGED <<seq, clock, last, infer, sampler, sess>>

\* The ids a request may name: those of the rows and one that no row has.
Ids(tbl) == {r.id : r \in db[tbl]} \cup {seq[tbl]}
PatientIds == {r.id : r \in db["patient"]} \cup {MaxPatients + 1}

Finish(r) ==
    /\ db' = r.u.cm
    /\ seq' = r.u.st.q
    /\ clock' = clock + 1
    /\ last' = [f \in DOMAIN r \ {"u"} |-> r[f]]
    /\ UNCHANGED <<infer, sampler, sess>>

CreateExamWithImage ==
    /\ clock < MaxOps
    /\ seq["image"] <= MaxImages
    /\ \E patient_id \in PatientIds, image_bytes \in ImageBytes,
          threshold \in Thresholds, scores \in Scores :
          Finish(create_exam_with_image(Begin(db, seq), patient_id, image_bytes, None,
                                        threshold, scores, clock + 1))

PredictAndSave ==
    /\ clock < MaxOps
    /\ \E image_id \in Ids("image"), threshold \in Thresholds,
          model_version_name \in ModelVersionNames, scores \in Scores :
          Finish(predict_and_save(Begin(db, seq), image_id, threshold,
                                  model_version_name, scores))

UpdateDoctorLabels ==
    /\ clock < MaxOps
    /\ \E image_id \in Ids("image"), labels \in LabelSubmissions,
          comment \in Comments :
          Finish(update_doctor_labels(Begin(db, seq), image_id, labels, comment,
                                      clock + 1))

Next ==
    \/ init_pathologies
    \/ load_seed_patients
    \/ CreateExamWithImage
    \/ PredictAndSave
    \/ UpdateDoctorLabels

Spec == Init /\ [][Next]_vars

\* ------------------------------------------------------------------------
\* Properties of the requests served one at a time
\* ------------------------------------------------------------------------
Committed == [t |-> db, q |-> seq]
CommittedNext == [t |-> db', q |-> seq']

Succeeded(op) == last.op = op /\ last.status = 200
Served(op, status) == clock' # clock /\ last'.op = op /\ last'.status = status

PredictionKey(r) == <<r.image_id, r.model_version_id, r.pathology_id>>
DoctorLabelKey(r) == <<r.image_id, r.model_version_id, r.pathology_id, r.labeled_by>>

UniquePredictions(tables) ==
    \A r1, r2 \in tables["predictedlabel"] :
        PredictionKey(r1) = PredictionKey(r2) => r1 = r2

UniqueDoctorLabels(tables) ==
    \A r1, r2 \in tables["doctorlabel"] :
        DoctorLabelKey(r1) = DoctorLabelKey(r2) => r1 = r2

\* What a prediction result says about the labels of the catalog: a set of
\* [pathology_id, probability, predicted_label].
ScoredLabels(st, predictions) ==
    {[pathology_id |-> SelectPathologyByCode(st, ANY_PATHOLOGY).id,
      probability |-> predictions.binary_prediction.probability,
      predicted_label |-> predictions.binary_prediction.has_finding] :
        x \in {x \in {1} : Found(SelectPathologyByCode(st, ANY_PATHOLOGY))}}
    \cup
    {[pathology_id |-> SelectPathologyByCode(st, predictions.multi_label_predictions[i].code).id,
      probability |-> predictions.multi_label_predictions[i].probability,
      predicted_label |-> predictions.multi_label_predictions[i].predicted_label] :
        i \in {i \in DOMAIN predictions.multi_label_predictions :
                 Found(SelectPathologyByCode(st, predictions.multi_label_predictions[i].code))}}

WrittenBy(r, res) ==
    r.image_id = res.image_id /\ r.model_version_id = res.model_version_id

\* C1: served one at a time, predict_and_save and create_exam_with_image
\* keep one Prediction row per (image, model version, label): after each
\* successful call every label it scored has exactly one row for the image
\* and model version, holding the probability and decision of that call, and
\* the rows of every other image or model version are as they were.
C1_OneRowLastWriteWins ==
    [][/\ UniquePredictions(db')
       /\ \A op \in {"predict_and_save", "create_exam_with_image"} :
            Served(op, 200) =>
              /\ \A s \in ScoredLabels(CommittedNext, last'.predictions) :
                    \E r \in db'["predictedlabel"] :
                       /\ WrittenBy(r, last') /\ r.pathology_id = s.pathology_id
                       /\ r.probability = s.probability
                       /\ r.predicted_label = s.predicted_label
                       /\ \A o \in db'["predictedlabel"] :
                             PredictionKey(o) = PredictionKey(r) => o = r
              /\ {r \in db'["predictedlabel"] : ~WrittenBy(r, last')}
                    = {r \in db["predictedlabel"] : ~WrittenBy(r, last')}]_vars

\* A re-score: predict_and_save updated in place the row that
\* create_exam_with_image had written for the image.
C1_Witness ==
    /\ Succeeded("predict_and_save")
    /\ seq["predictedlabel"] = 2
    /\ Cardinality({r \in db["predictedlabel"] : WrittenBy(r, last)}) = 1
    /\ \E r \in db["predictedlabel"] :
          /\ r.id = 1
          /\ r.probability = 2
          /\ r.predicted_label
          /\ r.probability = last.predictions.binary_prediction.probability

ImageRow(tables, image_id) == First({i \in tables["image"] : i.id = image_id})

PatientOfImage(tables, image_id) ==
    (CHOOSE e \in tables["exam"] : e.id = ImageRow(tables, image_id).exam_id).patient_id

ListedPatient(tables, patient_id) ==
    LET listing == list_patients_with_status([t |-> tables, q |-> seq])
    IN  listing[CHOOSE k \in DOMAIN listing : listing[k].id = patient_id]

\* C3: after a successful update_doctor_labels the image is reviewed, and
\* list_patients_with_status counts for its patient only the other images
\* that are still pending.
C3_ReviewedAfterLabels ==
    Succeeded("update_doctor_labels") =>
        LET image == ImageRow(db, last.image_id)
            patient_id == PatientOfImage(db, last.image_id)
            others == {i \in db["image"] :
                         /\ i.id # image.id
                         /\ i.reviewed_at = None
                         /\ PatientOfImage(db, i.id) = patient_id}
            listed == ListedPatient(db, patient_id)
        IN  /\ image.reviewed_at # None
            /\ image.reviewed_at = last.reviewed_at
            /\ listed.pending_reviews = Cardinality(others)
            /\ listed.needs_review = (others # {})

\* The patient has two images; one was just reviewed, the other is pending.
C3_Witness ==
    /\ Succeeded("update_doctor_labels")
    /\ ListedPatient(db, PatientOfImage(db, last.image_id)).pending_reviews = 1

\* C4: an update_doctor_labels call that meets a key resolving to no
\* pathology fails with 400 and commits nothing: the DoctorLabel rows and
\* the Image rows (reviewed_at) are the same before and after.
C4_FailedSubmissionWritesNothing ==
    [][Served("update_doctor_labels", 400) =>
          /\ db'["doctorlabel"] = db["doctorlabel"]
          /\ db'["image"] = db["image"]]_vars

\* The submission named a known label before the unknown key, so that a
\* row for it was written before the call failed.
C4_Witness ==
    /\ last.op = "update_doctor_labels" /\ last.status = 400
    /\ last.unknown_at = 2

Submitted(r, res) ==
    /\ r.image_id = res.image_id
    /\ r.model_version_id = res.model_version_id
    /\ r.labeled_by = res.doctor_id
    /\ r.pathology_id \in DOMAIN res.asked

\* C5: served one at a time, update_doctor_labels keeps at most one
\* DoctorLabel row per (image, model version, pathology, doctor): after each
\* successful call every pathology it named has exactly one row, whose
\* is_present is the value the call gave last for it, and every other row is
\* as it was.
C5_OneLabelRowLatestValue ==
    [][/\ UniqueDoctorLabels(db')
       /\ Served("update_doctor_labels", 200) =>
            /\ \A p \in DOMAIN last'.asked :
                  \E r \in db'["doctorlabel"] :
                     /\ Submitted(r, last') /\ r.pathology_id = p
                     /\ r.is_present = last'.asked[p]
                     /\ \A o \in db'["doctorlabel"] :
                           DoctorLabelKey(o) = DoctorLabelKey(r) => o = r
            /\ {r \in db'["doctorlabel"] : ~Submitted(r, last')}
                  = {r \in db["doctorlabel"] : ~Submitted(r, last')}]_vars

\* Effusion was submitted as present and then, in a second call, as absent:
\* one row, is_present false.
C5_Witness ==
    /\ Succeeded("update_doctor_labels")
    /\ seq["doctorlabel"] = 2
    /\ \E r \in db["doctorlabel"] :
          /\ r.id = 1 /\ r.labeled_at = 3
          /\ ~r.is_present /\ last.asked = (r.pathology_id :> FALSE)

\* The label a key of the submission just served resolves to.
ResolvedNext(i) == ResolvePathology(CommittedNext, last'.labels[i].key).id

\* C29: when one submission holds two keys that resolve to the same label,
\* one by its code and one by its display name, exactly one DoctorLabel row
\* of the image, the model version, that label and the doctor exists
\* afterwards, and its is_present is the value of the key processed last.
C29_TwoKeysOneRow ==
    [][Served("update_doctor_labels", 200) =>
         \A i, j \in DOMAIN last'.labels :
            (/\ i < j
             /\ ResolvedNext(i) = ResolvedNext(j)
             /\ \A k \in DOMAIN last'.labels : k > j => ResolvedNext(k) # ResolvedNext(j)) =>
                LET rows == {r \in db'["doctorlabel"] :
                                /\ r.image_id = last'.image_id
                                /\ r.model_version_id = last'.model_version_id
                                /\ r.pathology_id = ResolvedNext(j)
                                /\ r.labeled_by = last'.doctor_id}
                IN  /\ Cardinality(rows) = 1
                    /\ \A r \in rows : r.is_present = last'.labels[j].is_present]_vars

\* "EFFUSION" present and "Effusion" absent in one submission: one row of
\* the label, created by this call, is_present false.
C29_Witness ==
    /\ Succeeded("update_doctor_labels")
    /\ Len(last.labels) = 2
    /\ last.labels[1] = [key |-> "EFFUSION", is_present |-> TRUE]
    /\ last.labels[2] = [key |-> "Effusion", is_present |-> FALSE]
    /\ seq["doctorlabel"] = 2
    /\ \E r \in db["doctorlabel"] :
          /\ db["doctorlabel"] = {r}
          /\ r.image_id = last.image_id
          /\ r.labeled_at = last.reviewed_at
          /\ ~r.is_present

\* ------------------------------------------------------------------------
\* The decisions of DualXRayModel.predict_all, on a grid of quarters
\* (0.0, 0.25, 0.5, 0.75, 1.0) with thresholds strictly between 0 and 1
\* ------------------------------------------------------------------------
InferProbs == {0, 1, 2, 3, 4}
InferThresholds == {1, 2, 3}

InitInfer ==
    /\ db = EmptyDb
    /\ seq = InitSeq
    /\ clock = 0
    /\ last = Idle
    /\ sampler = Idle
    /\ sess = Idle
    /\ infer \in [binary : InferProbs,
                  multi : [1 .. Len(multilabel_pathologies) -> InferProbs],
                  threshold : InferThresholds,
                  done : {FALSE},
                  result : {Idle}]

PredictAll ==
    /\ ~infer.done
    /\ infer' = [infer EXCEPT !.done = TRUE,
                              !.result = predict_all(infer.multi, infer.binary,
                                                     infer.threshold)]
    /\ UNCHANGED <<db, seq, clock, last, sampler, sess>>

NextInfer == PredictAll

SpecInfer == InitInfer /\ [][NextInfer]_vars

\* C10: the binary path decides p >= t and labels the image "Finding"
\* exactly when the decision is true, else "No Finding"; the multi-label
\* path decides p > t for each label.  At p = t the binary decision is
\* true and the multi-label decision false.
C10_ThresholdDecisions ==
    infer.done =>
        LET b == infer.result.binary_prediction
            m == infer.result.multi_label_predictions
        IN  /\ b.has_finding = (infer.binary >= infer.threshold)
            /\ b.label = (IF b.has_finding THEN "Finding" ELSE "No Finding")
            /\ b.probability = infer.binary
            /\ DOMAIN m = DOMAIN infer.multi
            /\ \A i \in DOMAIN m :
                  /\ m[i].predicted_label = (infer.multi[i] > infer.threshold)
                  /\ m[i].probability = infer.multi[i]
                  /\ m[i].code = multilabel_pathologies[i]
            /\ infer.binary = infer.threshold => b.has_finding /\ b.label = "Finding"
            /\ \A i \in DOMAIN m : infer.multi[i] = infer.threshold => ~m[i].predicted_label

\* Both scorers return 0.5 at threshold 0.5.
C10_Witness ==
    /\ infer.done
    /\ infer.threshold = 2 /\ infer.binary = 2 /\ infer.multi[1] = 2
    /\ infer.result.binary_prediction.has_finding
    /\ ~infer.result.multi_label_predictions[1].predicted_label

\* ------------------------------------------------------------------------
\* generate_binary_prediction (generate_seed_data.py), on the same grid:
\* the seed generator scores an image with the binary scorer and decides
\* against the literal 0.5.
\* ------------------------------------------------------------------------
HALF == 2

generate_binary_prediction(prob) ==
    LET has_finding == prob > HALF
    IN  [label |-> IF has_finding THEN "Finding" ELSE "No Finding",
         probability |-> prob, has_finding |-> has_finding]

\* The generator scores the image the live path scores.
GenerateBinaryPrediction ==
    /\ last = Idle
    /\ last' = [op |-> "generate_binary_prediction", status |-> 0,
                binary_prediction |-> generate_binary_prediction(infer.binary)]
    /\ UNCHANGED <<db, seq, clock, infer, sampler, sess>>

NextGenerate == PredictAll \/ GenerateBinaryPrediction

SpecGenerate == InitInfer /\ [][NextGenerate]_vars

BothDecided ==
    /\ infer.done
    /\ infer.threshold = HALF
    /\ last.op = "generate_binary_prediction"

\* C28: for every probability p, has_finding and label of
\* generate_binary_prediction equal those of predict_binary at threshold 0.5.
C28_SeededAndLiveDecideAlike ==
    BothDecided =>
        /\ last.binary_prediction.has_finding
               = infer.result.binary_prediction.has_finding
        /\ last.binary_prediction.label = infer.result.binary_prediction.label

\* What the code does: the two decisions agree except at p = 0.5, where the
\* live path reports a finding and the generator does not.
C28_DecideAlikeExceptAtHalf ==
    BothDecided =>
        IF infer.binary = HALF
        THEN /\ infer.result.binary_prediction.has_finding
             /\ infer.result.binary_prediction.label = "Finding"
             /\ ~last.binary_prediction.has_finding
             /\ last.binary_prediction.label = "No Finding"
        ELSE /\ last.binary_prediction.has_finding
                    = infer.result.binary_prediction.has_finding
             /\ last.binary_prediction.label = infer.result.binary_prediction.label

\* Both paths have decided a probability of 0.5.
C28_Witness == BothDecided /\ infer.binary = HALF

\* ------------------------------------------------------------------------
\* stratified_patient_selection (generate_seed_data.py)
\*
\* The data frame gives every Patient ID its rows, each row the set of
\* findings its "Finding Labels" string joins with "|" and whether the file
\* of its "Image Index" is on disk.  A finding key, the sorted findings
\* joined with "|", stands for the set it renders.  sample(n, random_state)
\* returns n distinct rows the seed picks: here, any n of them.
\* ------------------------------------------------------------------------
Row(labels, available) == [labels |-> labels, available |-> available]

SubjectRows ==
    { << Row({"Mass"}, TRUE) >>,
      << Row({"Mass"}, FALSE) >>,
      << Row({"Mass"}, TRUE), Row({"Edema"}, TRUE) >>,
      << Row({"Mass"}, TRUE), Row({"Edema"}, FALSE) >>,
      << Row({"Hernia"}, TRUE) >> }

Range(f) == {f[i] : i \in DOMAIN f}

\* df[df["Image Index"].isin(available_images)]
AvailableRows(rows) == SelectSeq(rows, LAMBDA r : r.available)

\* df["Patient ID"].unique() of the filtered frame
Eligible(pop) == {p \in DOMAIN pop : AvailableRows(pop[p]) # << >>}

get_patient_finding_profile(patient_df) ==
    UNION {patient_df[i].labels : i \in DOMAIN patient_df}

FindingKey(pop, p) == get_patient_finding_profile(AvailableRows(pop[p]))

ProfilePatients(pop, finding_key) ==
    {p \in Eligible(pop) : FindingKey(pop, p) = finding_key}

FindingKeys(pop) == {FindingKey(pop, p) : p \in Eligible(pop)}

LeastOf(S) == CHOOSE x \in S : \A y \in S : x <= y

\* profiles_df["finding_key"].value_counts(): the keys by falling count, keys
\* of equal count in the order of their first patient.
RECURSIVE ProfileCounts(_, _)
ProfileCounts(pop, keys) ==
    IF keys = {} THEN << >>
    ELSE LET Count(k) == Cardinality(ProfilePatients(pop, k))
             top == {k \in keys : \A o \in keys : Count(k) >= Count(o)}
             head == CHOOSE k \in top : \A o \in top :
                        LeastOf(ProfilePatients(pop, k)) <= LeastOf(ProfilePatients(pop, o))
         IN  <<head>> \o ProfileCounts(pop, keys \ {head})

\* max(1, int(target_count * proportion)), proportion = count / total_patients
TargetForProfile(target_count, count, total_patients) ==
    Max(1, (target_count * count) \div total_patients)

\* The ascending list of a set of Patient IDs.
RECURSIVE ToList(_)
ToList(S) == IF S = {} THEN << >> ELSE <<LeastOf(S)>> \o ToList(S \ {LeastOf(S)})

Populations == [1 .. MaxSubjects -> SubjectRows]

InitSample ==
    /\ db = EmptyDb
    /\ seq = InitSeq
    /\ clock = 0
    /\ last = Idle
    /\ infer = Idle
    /\ sess = Idle
    /\ sampler \in [pop : Populations, target_count : 0 .. MaxTarget, pc : {"profile"},
                    todo : {<< >>}, selected_patients : {<< >>}, drawn : {0}]

OtherThanSampler == <<db, seq, clock, last, infer, sess>>

\* Lines 105-135: filter to the available images and build profiles_df.
BuildProfiles ==
    /\ sampler.pc = "profile"
    /\ Eligible(sampler.pop) # {}
    /\ sampler' = [sampler EXCEPT
                      !.pc = "stratify",
                      !.todo = ProfileCounts(sampler.pop, FindingKeys(sampler.pop))]
    /\ UNCHANGED OtherThanSampler

\* No row is left: pd.DataFrame([]) has no column "finding_key", and
\* profiles_df["finding_key"] raises KeyError.
BuildProfilesKeyError ==
    /\ sampler.pc = "profile"
    /\ Eligible(sampler.pop) = {}
    /\ sampler' = [sampler EXCEPT !.pc = "KeyError"]
    /\ UNCHANGED OtherThanSampler

\* Lines 143-153: one iteration of the loop over profile_counts.items().
SampleProfile ==
    /\ sampler.pc = "stratify"
    /\ sampler.todo # << >>
    /\ LET profile_patients == ProfilePatients(sampler.pop, Head(sampler.todo))
           target_for_profile ==
               TargetForProfile(sampler.target_count, Cardinality(profile_patients),
                                Cardinality(Eligible(sampler.pop)))
           n_to_sample == Min(target_for_profile, Cardinality(profile_patients))
       IN  \E sampled \in SUBSET profile_patients :
              /\ Cardinality(sampled) = n_to_sample
              /\ sampler' = [sampler EXCEPT
                                !.todo = Tail(@),
                                !.selected_patients = @ \o ToList(sampled),
                                !.drawn = @ + n_to_sample]
    /\ UNCHANGED OtherThanSampler

\* Lines 156-160: too many were drawn; target_count of them are kept.
Downsample ==
    /\ sampler.pc = "stratify"
    /\ sampler.todo = << >>
    /\ Len(sampler.selected_patients) > sampler.target_count
    /\ \E kept \in SUBSET DOMAIN sampler.selected_patients :
          /\ Cardinality(kept) = sampler.target_count
          /\ sampler' = [sampler EXCEPT
                            !.pc = "backfill",
                            !.selected_patients =
                                [i \in 1 .. Cardinality(kept) |->
                                    sampler.selected_patients[ToList(kept)[i]]]]
    /\ UNCHANGED OtherThanSampler

NoDownsample ==
    /\ sampler.pc = "stratify"
    /\ sampler.todo = << >>
    /\ Len(sampler.selected_patients) <= sampler.target_count
    /\ sampler' = [sampler EXCEPT !.pc = "backfill"]
    /\ UNCHANGED OtherThanSampler

Remaining == Eligible(sampler.pop) \ Range(sampler.selected_patients)

BackfillAny ==
    /\ sampler.pc = "backfill"
    /\ Len(sampler.selected_patients) < sampler.target_count
    /\ Remaining # {}
    /\ \E additional \in Eligible(sampler.pop) :
          sampler' = [sampler EXCEPT !.selected_patients = Append(@, additional)]
    /\ UNCHANGED OtherThanSampler

\* Lines 163-168: one iteration of the while loop.
Backfill ==
    /\ sampler.pc = "backfill"
    /\ Len(sampler.selected_patients) < sampler.target_count
    /\ Remaining # {}
    /\ \E additional \in Remaining :
          sampler' = [sampler EXCEPT !.selected_patients = Append(@, additional)]
    /\ UNCHANGED OtherThanSampler

\* The loop ends; subset_df holds the rows of the selected patients.
ReturnSubset ==
    /\ sampler.pc = "backfill"
    /\ \/ Len(sampler.selected_patients) >= sampler.target_count
       \/ Remaining = {}
    /\ sampler' = [sampler EXCEPT !.pc = "done"]
    /\ UNCHANGED OtherThanSampler

NextSample ==
    \/ BuildProfiles
    \/ BuildProfilesKeyError
    \/ SampleProfile
    \/ Downsample
    \/ NoDownsample
    \/ Backfill
    \/ ReturnSubset

SpecSample == InitSample /\ [][NextSample]_vars

\* The Patient IDs of subset_df.
Selected == Range(sampler.selected_patients)

\* C8 as claimed: for every population and target_count the call ends
\* having selected min(target_count, number of eligible subjects) distinct
\* subjects.
C8_SelectsMinOfTargetAndEligible ==
    sampler.pc \in {"done", "KeyError"} =>
        /\ sampler.pc = "done"
        /\ Cardinality(Selected) =
              Min(sampler.target_count, Cardinality(Eligible(sampler.pop)))

\* The count is right whenever the call returns.
C8_CountWhenReturned ==
    sampler.pc = "done" =>
        /\ Cardinality(Selected) =
              Min(sampler.target_count, Cardinality(Eligible(sampler.pop)))
        /\ Len(sampler.selected_patients) = Cardinality(Selected)

\* C9 as claimed: every finding profile with an eligible subject has a
\* subject in the returned subset, unless there are fewer eligible subjects
\* than profiles.
C9_EveryProfileRepresented ==
    sampler.pc = "done" =>
        \/ Cardinality(Eligible(sampler.pop)) < Cardinality(FindingKeys(sampler.pop))
        \/ \A k \in FindingKeys(sampler.pop) :
              Selected \cap ProfilePatients(sampler.pop, k) # {}

\* Without a downsample every profile keeps the subjects drawn for it.
C9_RepresentedWithoutDownsample ==
    (sampler.pc = "done" /\ sampler.drawn <= sampler.target_count) =>
        \A k \in FindingKeys(sampler.pop) :
            Selected \cap ProfilePatients(sampler.pop, k) # {}

\* round(n / d) as Python rounds: to the nearest integer, a half to the even
\* one.
RoundHalfEven(n, d) ==
    LET q == n \div d
        r == n % d
    IN  IF 2 * r < d THEN q
        ELSE IF 2 * r > d THEN q + 1
        ELSE IF q % 2 = 0 THEN q ELSE q + 1

\* A step of the stratified pass: one profile group has been sampled.
StratifiedDraw == sampler.pc = "stratify" /\ sampler'.todo # sampler.todo

GroupOfDraw == ProfilePatients(sampler.pop, Head(sampler.todo))

\* C19 as claimed: the stratified pass draws from each profile group
\* max(1, round(target_count * group_share)) subjects, or the whole group
\* when it is smaller, group_share being the group's fraction of the
\* eligible population.
C19_QuotaIsRoundedShare ==
    [][StratifiedDraw =>
          sampler'.drawn - sampler.drawn
              = Min(Max(1, RoundHalfEven(sampler.target_count * Cardinality(GroupOfDraw),
                                         Cardinality(Eligible(sampler.pop)))),
                    Cardinality(GroupOfDraw))]_vars

\* The draw is max(1, the share rounded down), limited by the group's size,
\* and the subjects drawn are of the group.
C19_QuotaIsTruncatedShare ==
    [][StratifiedDraw =>
          /\ sampler'.drawn - sampler.drawn
                = Min(Max(1, (sampler.target_count * Cardinality(GroupOfDraw))
                                 \div Cardinality(Eligible(sampler.pop))),
                      Cardinality(GroupOfDraw))
          /\ Len(sampler'.selected_patients) - Len(sampler.selected_patients)
                = sampler'.drawn - sampler.drawn
          /\ \A i \in DOMAIN sampler'.selected_patients \ DOMAIN sampler.selected_patients :
                sampler'.selected_patients[i] \in GroupOfDraw]_vars

\* C20 as claimed: with no eligible subject the call raises no error and
\* what it returns is empty.
C20_EmptyPopulationReturnsEmpty ==
    Eligible(sampler.pop) = {} =>
        /\ sampler.pc # "KeyError"
        /\ sampler.pc = "done" => Selected = {}

\* With no eligible subject the call never returns.
C20_EmptyPopulationNeverReturns ==
    Eligible(sampler.pop) = {} => sampler.pc \in {"profile", "KeyError"}

\* The while loop is not abandoned: an iteration that can run runs, and
\* the function returns once the loop condition fails.
SpecSampleFair == SpecSample /\ WF_vars(Backfill \/ ReturnSubset)

\* An iteration of the backfill loop.
BackfillIteration ==
    sampler.pc = "backfill" /\ sampler'.pc = "backfill" /\ sampler' # sampler

\* C26: the backfill loop terminates for every population and
\* target_count.  Each iteration adds exactly one subject, eligible and not
\* yet selected, while fewer than target_count are selected; the loop is
\* left only when target_count subjects are selected or no unselected
\* eligible subject remains; and once entered it is left.
C26_BackfillTerminates ==
    /\ [][BackfillIteration =>
             /\ Len(sampler.selected_patients) < sampler.target_count
             /\ Len(sampler'.selected_patients) = Len(sampler.selected_patients) + 1
             /\ SubSeq(sampler'.selected_patients, 1, Len(sampler.selected_patients))
                   = sampler.selected_patients
             /\ sampler'.selected_patients[Len(sampler'.selected_patients)]
                   \in Eligible(sampler.pop) \ Range(sampler.selected_patients)]_vars
    /\ [][(sampler.pc = "backfill" /\ sampler'.pc # "backfill") =>
             /\ sampler'.pc = "done"
             /\ \/ Len(sampler.selected_patients) >= sampler.target_count
                \/ Eligible(sampler.pop) \subseteq Range(sampler.selected_patients)]_vars
    /\ (sampler.pc = "backfill") ~> (sampler.pc = "done")

\* The stratified pass fell short of target_count and the loop has added
\* a subject and ended, an eligible subject being left unselected.
C26_Witness ==
    /\ sampler.pc = "done"
    /\ Len(sampler.selected_patients) > sampler.drawn
    /\ Len(sampler.selected_patients) = sampler.target_count
    /\ Selected # Eligible(sampler.pop)

\* ------------------------------------------------------------------------
\* stratified_patient_selection run twice by one process
\*
\* Every DataFrame.sample call is given random_state, an integer: pandas
\* builds a new generator from it for the call, so the positions drawn
\* depend on the seed, the number of rows and n alone.  The generator is
\* stood for by a small linear congruential one.
\* ------------------------------------------------------------------------
RngModulus == 8
RandomStates == {42, 43}

\* np.random.RandomState(random_state)
Seeded(random_state) == random_state % RngModulus

RngNext(s) == (5 * s + 3) % RngModulus

RemoveAt(items, k) == [i \in 1 .. Len(items) - 1 |-> IF i < k THEN items[i] ELSE items[i + 1]]

\* n rows of items drawn without replacement by the generator in state s.
RECURSIVE SampleFrom(_, _, _)
SampleFrom(items, n, s) ==
    IF n = 0 THEN << >>
    ELSE LET k == (s % Len(items)) + 1
         IN  <<items[k]>> \o SampleFrom(RemoveAt(items, k), n - 1, RngNext(s))

\* A generator shared by the calls of the process: what it gives depends on
\* the calls made before.
sample_shared(items, n, random_state) ==
    SampleFrom(items, n, Seeded(random_state + sampler.calls))

\* frame.sample(n=n, random_state=random_state)
sample(items, n, random_state) == SampleFrom(items, n, Seeded(random_state))

InitRerun ==
    /\ db = EmptyDb
    /\ seq = InitSeq
    /\ clock = 0
    /\ last = Idle
    /\ infer = Idle
    /\ sess = Idle
    /\ sampler \in [pop : Populations, target_count : 0 .. MaxTarget,
                    random_state : RandomStates, pc : {"profile"},
                    todo : {<< >>}, selected_patients : {<< >>}, drawn : {0},
                    run : {1}, calls : {0}, first : {[pc |-> "none", selected_patients |-> << >>]}]

\* Lines 143-153 with the draw of line 152.
SampleProfileSeeded ==
    /\ sampler.pc = "stratify"
    /\ sampler.todo # << >>
    /\ LET profile_patients == ProfilePatients(sampler.pop, Head(sampler.todo))
           target_for_profile ==
               TargetForProfile(sampler.target_count, Cardinality(profile_patients),
                                Cardinality(Eligible(sampler.pop)))
           n_to_sample == Min(target_for_profile, Cardinality(profile_patients))
           sampled == sample(ToList(profile_patients), n_to_sample, sampler.random_state)
       IN  sampler' = [sampler EXCEPT
                          !.todo = Tail(@),
                          !.selected_patients = @ \o sampled,
                          !.drawn = @ + n_to_sample,
                          !.calls = @ + 1]
    /\ UNCHANGED OtherThanSampler

\* Lines 156-160 with the draw of lines 158-160.
DownsampleSeeded ==
    /\ sampler.pc = "stratify"
    /\ sampler.todo = << >>
    /\ Len(sampler.selected_patients) > sampler.target_count
    /\ sampler' = [sampler EXCEPT
                      !.pc = "backfill",
                      !.selected_patients = sample(@, sampler.target_count,
                                                   sampler.random_state),
                      !.calls = @ + 1]
    /\ UNCHANGED OtherThanSampler

\* Lines 163-168 with the draw of line 167.
BackfillSeeded ==
    /\ sampler.pc = "backfill"
    /\ Len(sampler.selected_patients) < sampler.target_count
    /\ Remaining # {}
    /\ sampler' = [sampler EXCEPT
                      !.selected_patients = @ \o sample(ToList(Remaining), 1,
                                                        sampler.random_state),
                      !.calls = @ + 1]
    /\ UNCHANGED OtherThanSampler

\* The call has ended; it is made again with the same arguments.
Rerun ==
    /\ sampler.run = 1
    /\ sampler.pc \in {"done", "KeyError"}
    /\ sampler' = [sampler EXCEPT
                      !.run = 2,
                      !.first = [pc |-> sampler.pc,
                                 selected_patients |-> sampler.selected_patients],
                      !.pc = "profile", !.todo = << >>,
                      !.selected_patients = << >>, !.drawn = 0]
    /\ UNCHANGED OtherThanSampler

NextRerun ==
    \/ BuildProfiles
    \/ BuildProfilesKeyError
    \/ SampleProfileSeeded
    \/ DownsampleSeeded
    \/ NoDownsample
    \/ BackfillSeeded
    \/ ReturnSubset
    \/ Rerun

SpecRerun == InitRerun /\ [][NextRerun]_vars

Sessions == {"a", "b"}

EmptyOwn == [t \in Tables |-> {}]

\* load_seed_data (api/seed_loader.py): a patient, an exam and an image,
\* inserted with the ids of the seed files (here 1, 9 and 9), after
\* init_pathologies.  The sequences are not advanced by these inserts.
SeededDb ==
    LET st == InitPathologiesFrom([t |-> EmptyDb, q |-> InitSeq], 1)
    IN  [st EXCEPT !.t["patient"] = {[id |-> 1]},
                   !.t["exam"] = {[id |-> 9, patient_id |-> 1, exam_datetime |-> 1]},
                   !.t["image"] = {[id |-> 9, exam_id |-> 9, filename |-> "a.png",
                                     reviewed_at |-> None]}]

ConcScores == {[binary |-> 0, multi |-> <<2, 1>>], [binary |-> 2, multi |-> <<0, 0>>]}

ConcLabels ==
    { << [key |-> "EFFUSION", is_present |-> TRUE] >>,
      << [key |-> "InvalidPathology", is_present |-> TRUE] >> }

\* The requests in flight; image 8 and patient 2 do not exist.
ConcRequests ==
    [op : {"predict_and_save"}, image_id : {9, 8}, patient_id : {None},
     image_bytes : {"PNG"}, threshold : Thresholds,
     model_version_name : ModelVersionNames, scores : ConcScores,
     labels : {<< >>}, comment : Comments]
    \cup
    [op : {"update_doctor_labels"}, image_id : {9, 8}, patient_id : {None},
     image_bytes : {"PNG"}, threshold : Thresholds,
     model_version_name : {NoName}, scores : {[binary |-> 0, multi |-> <<2, 1>>]},
     labels : ConcLabels, comment : Comments]
    \cup
    [op : {"create_exam_with_image"}, image_id : {None}, patient_id : {1, 2},
     image_bytes : ImageBytes, threshold : Thresholds,
     model_version_name : {NoName}, scores : {[binary |-> 2, multi |-> <<0, 0>>]},
     labels : {<< >>}, comment : Comments]

NewSession(request) ==
    [request |-> request, pc |-> "start", own |-> EmptyOwn, mv |-> NoRow,
     doctor |-> NoRow, status |-> 0, image_id |-> request.image_id,
     failed_at |-> "none"]

InitConc ==
    /\ db = SeededDb.t
    /\ seq = SeededDb.q
    /\ clock = 0
    /\ last = Idle
    /\ infer = Idle
    /\ sampler = Idle
    /\ sess \in [Sessions -> {NewSession(r) : r \in ConcRequests}]

\* What the statements of session s see.
View(s) ==
    [t |-> [tbl \in Tables |->
               {r \in db[tbl] : \A o \in sess[s].own[tbl] : o.id # r.id}
                   \cup sess[s].own[tbl]],
     q |-> seq]

\* The rows of a view that the session wrote and has not committed.
Pending(st) == [tbl \in Tables |-> st.t[tbl] \ db[tbl]]

\* An UPDATE waits while another session holds an uncommitted write of the row.
RowLocksFree(s, own) ==
    \A tbl \in Tables : \A r \in own[tbl] :
        (\E c \in db[tbl] : c.id = r.id) =>
            \A o \in Sessions \ {s} : \A x \in sess[o].own[tbl] : x.id # r.id

ModelVersionNameOf(request) ==
    IF request.op = "predict_and_save" THEN ResolveName(request.model_version_name)
    ELSE DEFAULT_MODEL_VERSION

\* Where a handler goes on once it holds its model version.
AfterModelVersion(op) ==
    IF op = "predict_and_save" THEN "predict"
    ELSE IF op = "update_doctor_labels" THEN "labels"
    ELSE "save_predictions"

NotSessions == <<clock, last, infer, sampler>>

\* image = self.session.get(Image, image_id); 404 when there is none.
GetImage(s) ==
    /\ sess[s].pc = "start"
    /\ sess[s].request.op # "create_exam_with_image"
    /\ LET image == Get(View(s), "image", sess[s].image_id)
       IN  sess' = [sess EXCEPT
                       ![s].pc = IF ~Found(image) THEN "done"
                                 ELSE IF sess[s].request.op = "predict_and_save"
                                 THEN "select_mv" ELSE "select_doctor",
                       ![s].status = IF ~Found(image) THEN 404 ELSE @]
    /\ UNCHANGED <<db, seq>>
    /\ UNCHANGED NotSessions

\* create_exam_with_image: patient = self.session.get(Patient, patient_id)
GetPatient(s) ==
    /\ sess[s].pc = "start"
    /\ sess[s].request.op = "create_exam_with_image"
    /\ LET patient == Get(View(s), "patient", sess[s].request.patient_id)
       IN  sess' = [sess EXCEPT
                       ![s].pc = IF ~Found(patient) THEN "done" ELSE "validate",
                       ![s].status = IF ~Found(patient) THEN 404 ELSE @]
    /\ UNCHANGED <<db, seq>>
    /\ UNCHANGED NotSessions

CreateExamAndImageUnvalidated(s) ==
    /\ sess[s].pc = "validate"
    /\ LET st1 == Insert(View(s), "exam",
                         [patient_id |-> sess[s].request.patient_id,
                          exam_datetime |-> clock + 1])
           st2 == Insert(st1, "image",
                         [exam_id |-> seq["exam"], filename |-> UPLOAD_FILENAME,
                          reviewed_at |-> None])
       IN  /\ sess' = [sess EXCEPT ![s].own = Pending(st2),
                                   ![s].image_id = seq["image"],
                                   ![s].pc = "predict"]
           /\ seq' = st2.q
    /\ UNCHANGED db
    /\ UNCHANGED NotSessions

\* create_exam_with_image, lines 205-233: validate the bytes (400), then add
\* and flush the exam and the image.
CreateExamAndImage(s) ==
    /\ sess[s].pc = "validate"
    /\ IF ~validate_image(sess[s].request.image_bytes)
       THEN /\ sess' = [sess EXCEPT ![s].pc = "done", ![s].status = 400]
            /\ UNCHANGED seq
       ELSE LET st1 == Insert(View(s), "exam",
                              [patient_id |-> sess[s].request.patient_id,
                               exam_datetime |-> clock + 1])
                st2 == Insert(st1, "image",
                              [exam_id |-> seq["exam"], filename |-> UPLOAD_FILENAME,
                               reviewed_at |-> None])
            IN  /\ sess' = [sess EXCEPT ![s].own = Pending(st2),
                                        ![s].image_id = seq["image"],
                                        ![s].pc = "predict"]
                /\ seq' = st2.q
    /\ UNCHANGED db
    /\ UNCHANGED NotSessions

\* _get_or_create_default_doctor: the lookup.
SelectDefaultDoctor(s) ==
    /\ sess[s].pc = "select_doctor"
    /\ LET doctor == SelectDoctor(View(s))
       IN  sess' = [sess EXCEPT
                       ![s].doctor = doctor,
                       ![s].pc = IF Found(doctor) THEN "select_mv" ELSE "create_doctor"]
    /\ UNCHANGED <<db, seq>>
    /\ UNCHANGED NotSessions

\* User.email is unique: the INSERT waits for a session that holds an
\* uncommitted row of the same email.
DoctorInsertWaits(s) ==
    \E o \in Sessions \ {s} : \E x \in sess[o].own["user"] : x.email = DOCTOR_EMAIL

\* session.add(doctor); session.flush()
CreateDefaultDoctor(s) ==
    /\ sess[s].pc = "create_doctor"
    /\ ~DoctorInsertWaits(s)
    /\ ~Found(First({d \in db["user"] : d.email = DOCTOR_EMAIL}))
    /\ LET st2 == Insert(View(s), "user", [email |-> DOCTOR_EMAIL])
       IN  /\ sess' = [sess EXCEPT
                          ![s].own = Pending(st2),
                          ![s].doctor = Get(st2, "user", seq["user"]),
                          ![s].pc = "select_mv"]
           /\ seq' = st2.q
    /\ UNCHANGED db
    /\ UNCHANGED NotSessions

CreateDefaultDoctorConflictRaises(s) ==
    /\ sess[s].pc = "create_doctor"
    /\ ~DoctorInsertWaits(s)
    /\ Found(First({d \in db["user"] : d.email = DOCTOR_EMAIL}))
    /\ sess' = [sess EXCEPT ![s].own = EmptyOwn, ![s].pc = "done", ![s].status = 500]
    /\ seq' = [seq EXCEPT !["user"] = @ + 1]
    /\ UNCHANGED db
    /\ UNCHANGED NotSessions

\* The flush raises the duplicate-key error: rollback and query again.
CreateDefaultDoctorConflict(s) ==
    /\ sess[s].pc = "create_doctor"
    /\ ~DoctorInsertWaits(s)
    /\ Found(First({d \in db["user"] : d.email = DOCTOR_EMAIL}))
    /\ sess' = [sess EXCEPT
                   ![s].own = EmptyOwn,
                   ![s].doctor = First({d \in db["user"] : d.email = DOCTOR_EMAIL}),
                   ![s].pc = "select_mv"]
    /\ seq' = [seq EXCEPT !["user"] = @ + 1]
    /\ UNCHANGED db
    /\ UNCHANGED NotSessions

\* _get_or_create_model_version of either service: the lookup.
LookupModelVersion(s) ==
    /\ sess[s].pc = "select_mv"
    /\ LET model_version == SelectModelVersion(View(s), ModelVersionNameOf(sess[s].request))
       IN  sess' = [sess EXCEPT
                       ![s].mv = model_version,
                       ![s].pc = IF ~Found(model_version) THEN "create_mv"
                                 ELSE AfterModelVersion(sess[s].request.op)]
    /\ UNCHANGED <<db, seq>>
    /\ UNCHANGED NotSessions

\* PredictionService: session.add, session.commit, session.refresh.
Prediction_CreateModelVersion(s) ==
    /\ sess[s].pc = "create_mv"
    /\ sess[s].request.op = "predict_and_save"
    /\ LET st2 == Insert(View(s), "modelversion",
                         [name |-> ModelVersionNameOf(sess[s].request)])
       IN  /\ db' = st2.t
           /\ seq' = st2.q
           /\ sess' = [sess EXCEPT
                          ![s].own = EmptyOwn,
                          ![s].mv = Get(st2, "modelversion", seq["modelversion"]),
                          ![s].pc = AfterModelVersion(sess[s].request.op)]
    /\ UNCHANGED NotSessions

\* PatientService: session.add, session.flush.  No constraint makes the
\* flush fail, so the except branch is not entered.
Patient_CreateModelVersion(s) ==
    /\ sess[s].pc = "create_mv"
    /\ sess[s].request.op # "predict_and_save"
    /\ LET st2 == Insert(View(s), "modelversion",
                         [name |-> ModelVersionNameOf(sess[s].request)])
       IN  /\ seq' = st2.q
           /\ sess' = [sess EXCEPT
                          ![s].own = Pending(st2),
                          ![s].mv = Get(st2, "modelversion", seq["modelversion"]),
                          ![s].pc = AfterModelVersion(sess[s].request.op)]
    /\ UNCHANGED db
    /\ UNCHANGED NotSessions

SessionPredictions(s) ==
    predict_all(sess[s].request.scores.multi, sess[s].request.scores.binary,
                sess[s].request.threshold)

\* predictions = await predict_image(...): the scorer returns.
RunScorer(s) ==
    /\ sess[s].pc = "predict"
    /\ sess' = [sess EXCEPT
                   ![s].pc = IF sess[s].request.op = "predict_and_save"
                             THEN "save_binary" ELSE "select_mv"]
    /\ UNCHANGED <<db, seq>>
    /\ UNCHANGED NotSessions

CloseSessionFlushing(s) == View(s).t

\* The committed tables once the session of a request that raised is closed
\* (get_session): what the session had not committed is rolled back.
CloseSession(s) == db

\* predict_image raises (the bytes do not decode, the model does not load):
\* the exception leaves the handler.
ScorerRaises(s) ==
    /\ sess[s].pc = "predict"
    /\ db' = CloseSession(s)
    /\ sess' = [sess EXCEPT ![s].own = EmptyOwn, ![s].pc = "done",
                            ![s].status = 500, ![s].failed_at = "predict"]
    /\ UNCHANGED seq
    /\ UNCHANGED NotSessions

\* A flush or the commit raises a database error after rows of the result
\* were written.
WriteFails(s) ==
    /\ sess[s].pc \in {"save_multi", "commit"}
    /\ db' = CloseSession(s)
    /\ sess' = [sess EXCEPT ![s].own = EmptyOwn, ![s].pc = "done",
                            ![s].status = 500, ![s].failed_at = sess[s].pc]
    /\ UNCHANGED seq
    /\ UNCHANGED NotSessions

SaveBinaryPrediction(s) ==
    /\ sess[s].pc = "save_binary"
    /\ LET st2 == _save_binary_prediction(View(s), sess[s].image_id, sess[s].mv,
                                          SessionPredictions(s).binary_prediction)
       IN  /\ RowLocksFree(s, Pending(st2))
           /\ seq' = st2.q
           /\ sess' = [sess EXCEPT ![s].own = Pending(st2), ![s].pc = "save_multi"]
    /\ UNCHANGED db
    /\ UNCHANGED NotSessions

SaveMultiLabelPredictions(s) ==
    /\ sess[s].pc = "save_multi"
    /\ LET m == _save_multi_label_predictions(
                    View(s), sess[s].image_id, sess[s].mv,
                    SessionPredictions(s).multi_label_predictions)
       IN  /\ RowLocksFree(s, Pending(m.st))
           /\ seq' = m.st.q
           /\ sess' = [sess EXCEPT ![s].own = Pending(m.st), ![s].pc = "commit"]
    /\ UNCHANGED db
    /\ UNCHANGED NotSessions

\* create_exam_with_image, line 241: self._save_predictions(...)
SavePredictions(s) ==
    /\ sess[s].pc = "save_predictions"
    /\ LET st2 == _save_predictions(View(s), sess[s].image_id, sess[s].mv,
                                    SessionPredictions(s))
       IN  /\ seq' = st2.q
           /\ sess' = [sess EXCEPT ![s].own = Pending(st2), ![s].pc = "commit"]
    /\ UNCHANGED db
    /\ UNCHANGED NotSessions

\* predict_and_save, line 89, and create_exam_with_image, line 243:
\* self.session.commit()
CommitPredictions(s) ==
    /\ sess[s].pc = "commit"
    /\ db' = View(s).t
    /\ clock' = clock + 1
    /\ sess' = [sess EXCEPT ![s].own = EmptyOwn, ![s].pc = "done", ![s].status = 200]
    /\ UNCHANGED <<seq, last, infer, sampler>>

\* update_doctor_labels, the loop over labels.items(); an unknown key raises
\* 400 and the session closes without a commit.
UpsertDoctorLabels(s) ==
    /\ sess[s].pc = "labels"
    /\ LET l == UpsertDoctorLabelsFrom([st |-> View(s), ok |-> TRUE],
                                       sess[s].image_id, sess[s].mv,
                                       sess[s].doctor, sess[s].request.labels,
                                       sess[s].request.comment, clock + 1, 1)
       IN  /\ l.ok => RowLocksFree(s, Pending(l.st))
           /\ seq' = l.st.q
           /\ sess' = [sess EXCEPT
                          ![s].own = IF l.ok THEN Pending(l.st) ELSE EmptyOwn,
                          ![s].pc = IF l.ok THEN "review" ELSE "done",
                          ![s].status = IF l.ok THEN @ ELSE 400]
    /\ UNCHANGED db
    /\ UNCHANGED NotSessions

\* image.reviewed_at = now; session.add(image); session.commit()
ReviewAndCommit(s) ==
    /\ sess[s].pc = "review"
    /\ LET st2 == MarkReviewed(View(s), Get(View(s), "image", sess[s].image_id),
                               clock + 1)
       IN  db' = st2.t
    /\ clock' = clock + 1
    /\ sess' = [sess EXCEPT ![s].own = EmptyOwn, ![s].pc = "done", ![s].status = 200]
    /\ UNCHANGED <<seq, last, infer, sampler>>

NextConc ==
    \/ \E s \in Sessions : GetImage(s)
    \/ \E s \in Sessions : GetPatient(s)
    \/ \E s \in Sessions : CreateExamAndImage(s)
    \/ \E s \in Sessions : SelectDefaultDoctor(s)
    \/ \E s \in Sessions : CreateDefaultDoctor(s)
    \/ \E s \in Sessions : CreateDefaultDoctorConflict(s)
    \/ \E s \in Sessions : LookupModelVersion(s)
    \/ \E s \in Sessions : Prediction_CreateModelVersion(s)
    \/ \E s \in Sessions : Patient_CreateModelVersion(s)
    \/ \E s \in Sessions : RunScorer(s)
    \/ \E s \in Sessions : ScorerRaises(s)
    \/ \E s \in Sessions : WriteFails(s)
    \/ \E s \in Sessions : SaveBinaryPrediction(s)
    \/ \E s \in Sessions : SaveMultiLabelPredictions(s)
    \/ \E s \in Sessions : SavePredictions(s)
    \/ \E s \in Sessions : CommitPredictions(s)
    \/ \E s \in Sessions : UpsertDoctorLabels(s)
    \/ \E s \in Sessions : ReviewAndCommit(s)

SpecConc == InitConc /\ [][NextConc]_vars

AllDone == \A s \in Sessions : sess[s].pc = "done"

ModelVersionsNamed(name) == {m \in db["modelversion"] : m.name = name}

\* C6 as claimed: two concurrent predict_and_save calls for the same image
\* and model-version name, both served, leave at most one prediction row per
\* (image, model version, pathology), and neither ends in an error.  The
\* case is the one where the name has a single ModelVersion row.
C6_ConcurrentCallsOneRowPerTriple ==
    ( /\ AllDone
      /\ \A s \in Sessions :
            /\ sess[s].request.op = "predict_and_save"
            /\ sess[s].request.image_id = 9
            /\ sess[s].request.model_version_name = sess["a"].request.model_version_name
      /\ Cardinality(ModelVersionsNamed(ModelVersionNameOf(sess["a"].request))) = 1 )
    => /\ UniquePredictions(db)
       /\ \A s \in Sessions : sess[s].status = 200

\* C7 as claimed: when every call has ended, each name a served call asked
\* for has exactly one ModelVersion row, and that row is the one the call
\* obtained.
C7_OneModelVersionPerName ==
    AllDone =>
        \A s \in Sessions :
            sess[s].status = 200 =>
                ModelVersionsNamed(ModelVersionNameOf(sess[s].request)) = {sess[s].mv}

DefaultDoctors(tables) == {d \in tables["user"] : d.email = DOCTOR_EMAIL}

\* C25: lazy creation of the default doctor is race-safe.  Under every
\* interleaving of the calls at most one User row with email
\* doctor@example.com is committed, and an update_doctor_labels call ends
\* as its request alone decides (404 for a missing image, 400 for an
\* unknown label, served otherwise, with the committed doctor): a call that
\* loses the insert race never ends with the duplicate-key error.
C25_DefaultDoctorRaceSafe ==
    /\ Cardinality(DefaultDoctors(db)) <= 1
    /\ \A s \in Sessions :
          (sess[s].request.op = "update_doctor_labels" /\ sess[s].pc = "done") =>
            /\ sess[s].status =
                  IF ~Found(Get(Committed, "image", sess[s].request.image_id)) THEN 404
                  ELSE IF UnknownAt(Committed, sess[s].request.labels) # 0 THEN 400
                  ELSE 200
            /\ sess[s].status = 200 => DefaultDoctors(db) = {sess[s].doctor}

\* Both calls were served and one of them lost the insert race: its insert
\* took a key from the sequence and was rolled back.
C25_Witness ==
    /\ \A s \in Sessions :
          /\ sess[s].request.op = "update_doctor_labels"
          /\ sess[s].pc = "done"
          /\ sess[s].status = 200
    /\ seq["user"] = 3
    /\ Cardinality(db["user"]) = 1

\* The committed rows of session s's result: one per catalogued label it
\* scored, for its image and model version, with its values.
ResultCommitted(s, tables) ==
    \A x \in ScoredLabels([t |-> tables, q |-> seq], SessionPredictions(s)) :
        \E r \in tables["predictedlabel"] :
            /\ r.image_id = sess[s].image_id
            /\ r.model_version_id = sess[s].mv.id
            /\ r.pathology_id = x.pathology_id
            /\ r.probability = x.probability
            /\ r.predicted_label = x.predicted_label

\* C11: no partial predictions are committed.  The committed Prediction
\* table changes only at the final commit of a predict_and_save or
\* create_exam_with_image call that succeeds, and then every row of that
\* call's result is present and nothing else has changed; a call in which
\* the scorer raises or a write fails commits none of its rows.
C11_NoPartialPredictions ==
    [][db'["predictedlabel"] # db["predictedlabel"] =>
          \E s \in Sessions :
             /\ sess[s].pc = "commit"
             /\ sess'[s].status = 200
             /\ ResultCommitted(s, db')
             /\ \A r \in (db'["predictedlabel"] \ db["predictedlabel"])
                          \cup (db["predictedlabel"] \ db'["predictedlabel"]) :
                   /\ r.image_id = sess[s].image_id
                   /\ r.model_version_id = sess[s].mv.id]_vars

\* A predict_and_save call had written all its rows when its commit failed;
\* no Prediction row is committed.
C11_Witness ==
    \E s \in Sessions :
        /\ sess[s].request.op = "predict_and_save"
        /\ sess[s].status = 500
        /\ sess[s].failed_at = "commit"
        /\ Found(sess[s].mv)
        /\ db["predictedlabel"] = {}
        /\ \A o \in Sessions \ {s} : sess[o].pc = "start"

\* The Prediction rows a served call wrote: those of its image and model
\* version for a label its result scores.
AffectedPredictions(tables, res) ==
    {r \in tables["predictedlabel"] :
        /\ WrittenBy(r, res)
        /\ \E x \in ScoredLabels([t |-> tables, q |-> seq], res.predictions) :
              x.pathology_id = r.pathology_id}

\* C12 as claimed: the identifiers predict_and_save returns are those of
\* all the Prediction rows it updated or inserted, the row of the binary
\* result included.
C12_ReturnsAllAffectedIds ==
    [][Served("predict_and_save", 200) =>
          Range(last'.saved_prediction_ids)
              = {r.id : r \in AffectedPredictions(db', last')}]_vars

\* The identifiers returned are those of the multi-label rows written.
C12_ReturnsMultiLabelIds ==
    [][Served("predict_and_save", 200) =>
          Range(last'.saved_prediction_ids)
              = {r.id : r \in {a \in AffectedPredictions(db', last') :
                    a.pathology_id # SelectPathologyByCode(CommittedNext, ANY_PATHOLOGY).id}}]_vars

\* The binary Prediction of a served call: a row of its image and model
\* version for the ANY_PATHOLOGY label, with the binary result's values.
BinaryPredictionStored(tables, res) ==
    LET any_pathology == SelectPathologyByCode([t |-> tables, q |-> seq], ANY_PATHOLOGY)
    IN  /\ Found(any_pathology)
        /\ \E r \in tables["predictedlabel"] :
              /\ WrittenBy(r, res)
              /\ r.pathology_id = any_pathology.id
              /\ r.probability = res.predictions.binary_prediction.probability
              /\ r.predicted_label = res.predictions.binary_prediction.has_finding

NoAnyPathology(tables) ==
    ~Found(SelectPathologyByCode([t |-> tables, q |-> seq], ANY_PATHOLOGY))

\* C13 as claimed: when no Pathology row has code ANY_PATHOLOGY, a served
\* predict_and_save or create_exam_with_image call creates that row and
\* stores the binary Prediction for it.
C13_AnyPathologyCreatedLazily ==
    [][\A op \in {"predict_and_save", "create_exam_with_image"} :
          (Served(op, 200) /\ NoAnyPathology(db)) => BinaryPredictionStored(db', last')]_vars

\* create_exam_with_image does so.
C13_CreateExamCreatesAnyPathology ==
    [][(Served("create_exam_with_image", 200) /\ NoAnyPathology(db))
          => BinaryPredictionStored(db', last')]_vars

\* predict_and_save with no ANY_PATHOLOGY row writes no binary Prediction
\* and creates no Pathology row.
C13_PredictAndSaveSkipsBinary ==
    [][(Served("predict_and_save", 200) /\ NoAnyPathology(db))
          => /\ db'["pathology"] = db["pathology"]
             /\ NoAnyPathology(db')]_vars

\* The codes of a multi-label result that the catalog lacks, and those it has.
UnknownCodes(tables, res) ==
    {res.predictions.multi_label_predictions[i].code :
        i \in {i \in DOMAIN res.predictions.multi_label_predictions :
                 ~Found(SelectPathologyByCode([t |-> tables, q |-> seq],
                            res.predictions.multi_label_predictions[i].code))}}

KnownEntries(tables, res) ==
    {res.predictions.multi_label_predictions[i] :
        i \in {i \in DOMAIN res.predictions.multi_label_predictions :
                 Found(SelectPathologyByCode([t |-> tables, q |-> seq],
                           res.predictions.multi_label_predictions[i].code))}}

C23_NotFoundChangesNothing ==
    [][/\ \A op \in {"predict_and_save", "update_doctor_labels"} :
            (clock' # clock /\ last'.op = op) =>
               (last'.status = 404 <=> ~Found(Get(Committed, "image", last'.image_id)))
       /\ \A op \in {"predict_and_save", "update_doctor_labels", "create_exam_with_image"} :
            Served(op, 404) => (db' = db /\ seq' = seq)]_vars

\* Each of the three operations has been refused for a missing entity while
\* no model version and no doctor exists.
C23_Witness ==
    /\ last.status = 404
    /\ last.op \in {"predict_and_save", "update_doctor_labels"}
    /\ db["modelversion"] = {}
    /\ db["user"] = {}
    /\ db["patient"] # {}

\* init_pathologies has run: every row it seeds is in the catalog.
CatalogSeeded(tables) ==
    \A i \in DOMAIN PATHOLOGIES :
        Found(SelectPathologyByCode([t |-> tables, q |-> seq], PATHOLOGIES[i].code))

\* The label codes that have a Prediction row for the image.
PredictedCodes(tables, image_id) ==
    {p.code : p \in {p \in tables["pathology"] :
        \E r \in tables["predictedlabel"] :
            r.image_id = image_id /\ r.pathology_id = p.id}}

\* C24 as claimed: with the catalog seeded by init_pathologies, a served
\* predict_and_save returns a saved_prediction_ids that is not empty, and
\* the Prediction rows a served create_exam_with_image stores for its image
\* are the ANY_PATHOLOGY row and at least one row of another code.
C24_MultiLabelPredictionsPersisted ==
    [][CatalogSeeded(db) =>
          /\ Served("predict_and_save", 200) => last'.saved_prediction_ids # << >>
          /\ Served("create_exam_with_image", 200) =>
                /\ ANY_PATHOLOGY \in PredictedCodes(db', last'.image_id)
                /\ PredictedCodes(db', last'.image_id) # {ANY_PATHOLOGY}]_vars

\* With the catalog seeded, the binary row is the only one persisted.
C24_OnlyBinaryPersisted ==
    [][CatalogSeeded(db) =>
          /\ Served("predict_and_save", 200) =>
                /\ last'.saved_prediction_ids = << >>
                /\ BinaryPredictionStored(db', last')
          /\ Served("create_exam_with_image", 200) =>
                PredictedCodes(db', last'.image_id) = {ANY_PATHOLOGY}]_vars

\* A create_exam_with_image request whose bytes fail validate_image.
InvalidUpload(s) ==
    /\ sess[s].request.op = "create_exam_with_image"
    /\ ~validate_image(sess[s].request.image_bytes)

\* C22: an invalid image fails validation before inference is attempted.
\* A create_exam_with_image call with bytes that fail validate_image never
\* reaches the scorers and writes nothing, and for an existing patient it
\* ends with status 400: no Exam, Image, ModelVersion or Prediction row is
\* created and no key is taken from a sequence.
C22_InvalidImageRejected ==
    [][\A s \in Sessions :
          InvalidUpload(s) =>
            /\ sess'[s].pc \in {"start", "validate", "done"}
            /\ sess'[s].own = EmptyOwn
            /\ sess'[s] # sess[s] => (db' = db /\ seq' = seq)
            /\ (sess[s].pc = "validate" /\ sess'[s].pc # "validate") =>
                  (sess'[s].pc = "done" /\ sess'[s].status = 400)
            /\ sess'[s].pc = "done" =>
                  sess'[s].status = IF Found(Get([t |-> db, q |-> seq], "patient",
                                                 sess[s].request.patient_id))
                                    THEN 400 ELSE 404]_vars

\* An upload of invalid bytes for an existing patient has been refused.
C22_Witness ==
    \E s \in Sessions :
        /\ InvalidUpload(s)
        /\ Found(Get([t |-> db, q |-> seq], "patient", sess[s].request.patient_id))
        /\ sess[s].pc = "done"
        /\ sess[s].status = 400
        /\ db["exam"] = SeededDb.t["exam"]
        /\ db["image"] = SeededDb.t["image"]

\* ------------------------------------------------------------------------
\* load_seed_data (api/seed_loader.py)
\*
\* A seeds directory gives the records of its six files in file order (an
\* absent file is an empty list); an image record says whether its file is
\* in seeds/images.  Files here are shorter than a commit batch (100 images,
\* 500 labels), so each collection is committed once, at its end.  The ids
\* the seed files carry lie above those the sequences hand out.  The label
\* files of the curated directory name catalog codes and one code the
\* catalog lacks.
\* ------------------------------------------------------------------------
SeedCurated ==
    [name |-> "curated",
     patients |-> << [id |-> 1] >>,
     exams |-> << [id |-> 9, patient_id |-> 1] >>,
     images |-> << [id |-> 9, exam_id |-> 9, filename |-> "a.png", on_disk |-> TRUE],
                   [id |-> 8, exam_id |-> 9, filename |-> "b.png", on_disk |-> FALSE] >>,
     model_versions |-> << [id |-> 9, name |-> "torchxrayvision_densenet121"] >>,
     predicted_labels |->
        << [image_id |-> 9, model_version_id |-> 9, pathology_code |-> "EFFUSION",
            probability |-> 2, predicted_label |-> TRUE],
           [image_id |-> 9, model_version_id |-> 9, pathology_code |-> "Mass",
            probability |-> 0, predicted_label |-> FALSE] >>,
     doctor_labels |->
        << [image_id |-> 9, model_version_id |-> 9, pathology_code |-> "EFFUSION",
            is_present |-> TRUE, labeled_by |-> 1] >>]

SeedHandWritten ==
    [name |-> "hand-written",
     patients |-> << [id |-> 1] >>,
     exams |-> << [id |-> 9, patient_id |-> 1], [id |-> 9, patient_id |-> 1] >>,
     images |-> << [id |-> None, exam_id |-> 9, filename |-> "a.png", on_disk |-> TRUE] >>,
     model_versions |-> << >>,
     predicted_labels |-> << >>,
     doctor_labels |-> << >>]

\* A directory whose only image file is missing while its label files still
\* name the image.
SeedMissingFile ==
    [name |-> "missing-file",
     patients |-> << [id |-> 1] >>,
     exams |-> << [id |-> 9, patient_id |-> 1] >>,
     images |-> << [id |-> 8, exam_id |-> 9, filename |-> "b.png", on_disk |-> FALSE] >>,
     model_versions |-> << [id |-> 9, name |-> "torchxrayvision_densenet121"] >>,
     predicted_labels |->
        << [image_id |-> 8, model_version_id |-> 9, pathology_code |-> "EFFUSION",
            probability |-> 2, predicted_label |-> TRUE] >>,
     doctor_labels |->
        << [image_id |-> 8, model_version_id |-> 9, pathology_code |-> "EFFUSION",
            is_present |-> TRUE, labeled_by |-> 1] >>]

SeedDirs == {SeedCurated, SeedHandWritten, SeedMissingFile}

NoStats ==
    [patients |-> 0, exams |-> 0, images |-> 0, model_versions |-> 0,
     predicted_labels |-> 0, doctor_labels |-> 0, skipped_patients |-> 0,
     skipped_exams |-> 0, skipped_images |-> 0, skipped_model_versions |-> 0]

\* session.add of a row that carries its id: the sequence is not used.
InsertWithId(st, tbl, row) == [st EXCEPT !.t[tbl] = @ \cup {row}]

\* The foreign keys of the schema (api/models.py): a flush or commit that
\* breaks one raises.
ReferencesIntact(tables) ==
    LET HasId(tbl, id) == \E r \in tables[tbl] : r.id = id
    IN  /\ \A e \in tables["exam"] : HasId("patient", e.patient_id)
        /\ \A i \in tables["image"] : HasId("exam", i.exam_id)
        /\ \A r \in tables["predictedlabel"] :
              /\ HasId("image", r.image_id)
              /\ HasId("modelversion", r.model_version_id)
              /\ HasId("pathology", r.pathology_id)
        /\ \A r \in tables["doctorlabel"] :
              /\ HasId("image", r.image_id)
              /\ HasId("modelversion", r.model_version_id)
              /\ HasId("pathology", r.pathology_id)
              /\ HasId("user", r.labeled_by)

\* Each loop below takes acc = [st, stats] through the records from i on.
RECURSIVE LoadPatientsFrom(_, _, _)
LoadPatientsFrom(acc, data, i) ==
    IF i > Len(data) THEN acc
    ELSE LoadPatientsFrom(
             IF Found(Get(acc.st, "patient", data[i].id))
             THEN [acc EXCEPT !.stats.skipped_patients = @ + 1]
             ELSE [st |-> InsertWithId(acc.st, "patient", [id |-> data[i].id]),
                   stats |-> [acc.stats EXCEPT !.patients = @ + 1]],
             data, i + 1)

RECURSIVE LoadExamsFrom(_, _, _, _)
LoadExamsFrom(acc, data, now, i) ==
    IF i > Len(data) THEN acc
    ELSE LoadExamsFrom(
             IF Found(Get(acc.st, "exam", data[i].id))
             THEN [acc EXCEPT !.stats.skipped_exams = @ + 1]
             ELSE [st |-> InsertWithId(acc.st, "exam",
                                       [id |-> data[i].id,
                                        patient_id |-> data[i].patient_id,
                                        exam_datetime |-> now]),
                   stats |-> [acc.stats EXCEPT !.exams = @ + 1]],
             data, now, i + 1)

\* select(Image).where(Image.exam_id == ..., Image.filename == ...).first()
SelectImageByFile(st, exam_id, filename) ==
    First({r \in st.t["image"] : r.exam_id = exam_id /\ r.filename = filename})

RECURSIVE LoadImagesReviewed(_, _, _)
LoadImagesReviewed(acc, data, i) ==
    IF i > Len(data) THEN acc
    ELSE LET d == data[i]
             existing == IF d.id # None THEN Get(acc.st, "image", d.id)
                         ELSE SelectImageByFile(acc.st, d.exam_id, d.filename)
             row == [exam_id |-> d.exam_id, filename |-> d.filename, reviewed_at |-> 1]
         IN  LoadImagesReviewed(
                 IF ~d.on_disk \/ Found(existing)
                 THEN [acc EXCEPT !.stats.skipped_images = @ + 1]
                 ELSE [st |-> IF d.id # None
                              THEN InsertWithId(acc.st, "image", [id |-> d.id] @@ row)
                              ELSE Insert(acc.st, "image", row),
                       stats |-> [acc.stats EXCEPT !.images = @ + 1]],
                 data, i + 1)

RECURSIVE LoadImagesFrom(_, _, _)
LoadImagesFrom(acc, data, i) ==
    IF i > Len(data) THEN acc
    ELSE LET d == data[i]
             existing == IF d.id # None THEN Get(acc.st, "image", d.id)
                         ELSE SelectImageByFile(acc.st, d.exam_id, d.filename)
             row == [exam_id |-> d.exam_id, filename |-> d.filename, reviewed_at |-> None]
         IN  LoadImagesFrom(
                 IF ~d.on_disk \/ Found(existing)
                 THEN [acc EXCEPT !.stats.skipped_images = @ + 1]
                 ELSE [st |-> IF d.id # None
                              THEN InsertWithId(acc.st, "image", [id |-> d.id] @@ row)
                              ELSE Insert(acc.st, "image", row),
                       stats |-> [acc.stats EXCEPT !.images = @ + 1]],
                 data, i + 1)

RECURSIVE LoadModelVersionsFrom(_, _, _)
LoadModelVersionsFrom(acc, data, i) ==
    IF i > Len(data) THEN acc
    ELSE LoadModelVersionsFrom(
             IF Found(Get(acc.st, "modelversion", data[i].id))
             THEN [acc EXCEPT !.stats.skipped_model_versions = @ + 1]
             ELSE [st |-> InsertWithId(acc.st, "modelversion",
                                       [id |-> data[i].id, name |-> data[i].name]),
                   stats |-> [acc.stats EXCEPT !.model_versions = @ + 1]],
             data, i + 1)

\* pathology_map.get(code): the id of the catalog row of that code, or None.
PathologyMapGet(pathologies, code) ==
    First({p \in pathologies : p.code = code}).id

RECURSIVE LoadPredictedLabelsUnchecked(_, _, _, _)
LoadPredictedLabelsUnchecked(acc, pathologies, data, i) ==
    IF i > Len(data) THEN acc
    ELSE LET d == data[i]
             pathology_id == PathologyMapGet(pathologies, d.pathology_code)
         IN  LoadPredictedLabelsUnchecked(
                 IF pathology_id = None THEN acc
                 ELSE [st |-> Insert(acc.st, "predictedlabel",
                                     NewPrediction(d.image_id, d.model_version_id,
                                                   pathology_id, d.probability,
                                                   d.predicted_label)),
                       stats |-> [acc.stats EXCEPT !.predicted_labels = @ + 1]],
                 pathologies, data, i + 1)

RECURSIVE LoadPredictedLabelsFrom(_, _, _, _)
LoadPredictedLabelsFrom(acc, pathologies, data, i) ==
    IF i > Len(data) THEN acc
    ELSE LET d == data[i]
             pathology_id == PathologyMapGet(pathologies, d.pathology_code)
         IN  LoadPredictedLabelsFrom(
                 IF pathology_id = None THEN acc
                 ELSE IF Found(SelectPrediction(acc.st, d.image_id, d.model_version_id,
                                                pathology_id))
                 THEN acc
                 ELSE [st |-> Insert(acc.st, "predictedlabel",
                                     NewPrediction(d.image_id, d.model_version_id,
                                                   pathology_id, d.probability,
                                                   d.predicted_label)),
                       stats |-> [acc.stats EXCEPT !.predicted_labels = @ + 1]],
                 pathologies, data, i + 1)

RECURSIVE LoadDoctorLabelsFrom(_, _, _, _, _)
LoadDoctorLabelsFrom(acc, pathologies, data, now, i) ==
    IF i > Len(data) THEN acc
    ELSE LET d == data[i]
             pathology_id == PathologyMapGet(pathologies, d.pathology_code)
         IN  LoadDoctorLabelsFrom(
                 IF pathology_id = None THEN acc
                 ELSE IF Found(SelectDoctorLabel(acc.st, d.image_id, d.model_version_id,
                                                 pathology_id, d.labeled_by))
                 THEN acc
                 ELSE [st |-> Insert(acc.st, "doctorlabel",
                                     [image_id |-> d.image_id,
                                      model_version_id |-> d.model_version_id,
                                      pathology_id |-> pathology_id,
                                      is_present |-> d.is_present,
                                      comment |-> NoName,
                                      labeled_by |-> d.labeled_by,
                                      labeled_at |-> now]),
                       stats |-> [acc.stats EXCEPT !.doctor_labels = @ + 1]],
                 pathologies, data, now, i + 1)

\* One collection: run its loop and commit.  r is [u, raised, stats]; a
\* collection after one that raised is not reached, and a batch that breaks
\* a foreign key raises and is rolled back with the session.
LoadCollection(r, acc) ==
    IF r.raised THEN r
    ELSE IF ~ReferencesIntact(acc.st.t)
    THEN [u |-> Close([r.u EXCEPT !.st.q = acc.st.q]), raised |-> TRUE, stats |-> acc.stats]
    ELSE [u |-> Commit([r.u EXCEPT !.st = acc.st]), raised |-> FALSE, stats |-> acc.stats]

load_seed_data(u, seed, now) ==
    LET Acc(r) == [st |-> r.u.st, stats |-> r.stats]
        r0 == [u |-> u, raised |-> FALSE, stats |-> NoStats]
        r1 == LoadCollection(r0, LoadPatientsFrom(Acc(r0), seed.patients, 1))
        r2 == LoadCollection(r1, LoadExamsFrom(Acc(r1), seed.exams, now, 1))
        r3 == LoadCollection(r2, LoadImagesFrom(Acc(r2), seed.images, 1))
        r4 == LoadCollection(r3, LoadModelVersionsFrom(Acc(r3), seed.model_versions, 1))
        r5 == LoadCollection(r4, LoadPredictedLabelsFrom(Acc(r4), r4.u.st.t["pathology"],
                                                         seed.predicted_labels, 1))
        r6 == LoadCollection(r5, LoadDoctorLabelsFrom(Acc(r5), r5.u.st.t["pathology"],
                                                      seed.doctor_labels, now, 1))
    IN  [u |-> r6.u, status |-> IF r6.raised THEN 500 ELSE 200, op |-> "load_seed_data",
         seed |-> seed.name, stats |-> r6.stats]

\* ------------------------------------------------------------------------
\* Seed loads among the requests
\* ------------------------------------------------------------------------
InitSeed == Init

SEED_DOCTOR_EMAIL == "seed.doctor@example.com"

\* init_default_user (api/init_db.py): the user the seed's doctor labels
\* name, inserted with id 1 when no user has that id.
init_default_user ==
    /\ ~\E d \in db["user"] : d.id = 1
    /\ db' = InsertWithId([t |-> db, q |-> seq], "user",
                          [id |-> 1, email |-> SEED_DOCTOR_EMAIL]).t
    /\ UNCHANGED <<seq, clock, last, infer, sampler, sess>>

LoadSeedData ==
    /\ clock < MaxOps
    /\ \E seed \in SeedDirs :
          Finish(load_seed_data(Begin(db, seq), seed, clock + 1))

NextSeed ==
    \/ init_pathologies
    \/ init_default_user
    \/ LoadSeedData
    \/ CreateExamWithImage
    \/ PredictAndSave
    \/ UpdateDoctorLabels

SpecSeed == InitSeed /\ [][NextSeed]_vars

\* ------------------------------------------------------------------------
\* Properties of the seed loads and of the requests on seeded rows
\* ------------------------------------------------------------------------
DoctorLabelsOf(tables, image_id) ==
    {r \in tables["doctorlabel"] : r.image_id = image_id}

\* C15 as claimed: what a served update_doctor_labels returns has one entry
\* for every DoctorLabel row of the image, the rows of other reviewers and
\* of other model versions for the same label included.
C15_ReturnsEveryDoctorLabelRow ==
    [][Served("update_doctor_labels", 200) =>
          Cardinality(DOMAIN last'.doctor_labels)
              = Cardinality(DoctorLabelsOf(db', last'.image_id))]_vars

\* What is returned has one entry per label code that has a row.
C15_ReturnsOneEntryPerCode ==
    [][Served("update_doctor_labels", 200) =>
          DOMAIN last'.doctor_labels
              = {p.code : p \in {p \in db'["pathology"] :
                    \E r \in DoctorLabelsOf(db', last'.image_id) : r.pathology_id = p.id}}]_vars

SeedNamed(name) == CHOOSE seed \in SeedDirs : seed.name = name

LoadedCounts == {"patients", "exams", "images", "model_versions",
                 "predicted_labels", "doctor_labels"}

\* C16: reseeding is idempotent.  From the state a run of load_seed_data
\* leaves, a second run over the same seed files ends with every table
\* holding the rows it held: it inserts no Patient, Exam, Image,
\* ModelVersion, Prediction or DoctorLabel row and overwrites none.
C16_ReseedingIdempotent ==
    [][(clock' # clock /\ last'.op = "load_seed_data") =>
          LET again == load_seed_data(Begin(db', seq'), SeedNamed(last'.seed), clock' + 1)
          IN  /\ again.u.cm = db'
              /\ again.status = last'.status
              /\ again.status = 200 => \A k \in LoadedCounts : again.stats[k] = 0]_vars

\* A second run of the curated seed has been served over the rows of the
\* first, labels included.
C16_Witness ==
    /\ last.op = "load_seed_data"
    /\ last.status = 200
    /\ last.seed = "curated"
    /\ \A k \in LoadedCounts : last.stats[k] = 0
    /\ last.stats.skipped_patients > 0
    /\ db["predictedlabel"] # {}
    /\ db["doctorlabel"] # {}

SkippedKey ==
    [patients |-> "skipped_patients", exams |-> "skipped_exams",
     images |-> "skipped_images", model_versions |-> "skipped_model_versions",
     predicted_labels |-> "skipped_predicted_labels",
     doctor_labels |-> "skipped_doctor_labels"]

CountsAddUp(stats, seed, k) ==
    /\ SkippedKey[k] \in DOMAIN stats
    /\ stats[k] + stats[SkippedKey[k]] = Len(seed[k])

\* C17 as claimed: the statistics a run of load_seed_data returns hold, for
\* each of the six collections, a loaded count and a skipped count whose
\* sum is the number of records in the collection's file.
C17_LoadedAndSkippedPerCollection ==
    [][Served("load_seed_data", 200) =>
          \A k \in LoadedCounts : CountsAddUp(last'.stats, SeedNamed(last'.seed), k)]_vars

\* The statistics hold both counts for patients, exams, images and model
\* versions, and for the labels a loaded count only.
C17_CountsOfFourCollections ==
    [][Served("load_seed_data", 200) =>
          /\ \A k \in {"patients", "exams", "images", "model_versions"} :
                CountsAddUp(last'.stats, SeedNamed(last'.seed), k)
          /\ \A k \in {"predicted_labels", "doctor_labels"} :
                /\ SkippedKey[k] \notin DOMAIN last'.stats
                /\ last'.stats[k] <= Len(SeedNamed(last'.seed)[k])]_vars

LoadServed == clock' # clock /\ last'.op = "load_seed_data"

\* The records of a label file whose code the catalog has and whose image
\* record names a file that is missing.
LabelsOfMissingImages(tables, seed, k) ==
    {i \in DOMAIN seed[k] :
        /\ PathologyMapGet(tables["pathology"], seed[k][i].pathology_code) # None
        /\ \E j \in DOMAIN seed.images :
              seed.images[j].id = seed[k][i].image_id /\ ~seed.images[j].on_disk}

LabelReferencesIntact(tables) ==
    \A r \in tables["predictedlabel"] \cup tables["doctorlabel"] :
        /\ \E i \in tables["image"] : i.id = r.image_id
        /\ \E v \in tables["modelversion"] : v.id = r.model_version_id

\* C30: load_seed_data keeps references intact.  With the user of the
\* seed's doctor labels in place, a load finishes, and every
\* ImagePredictedLabel and DoctorLabel row then refers to an Image row and a
\* ModelVersion row of the database, also when an image record was skipped
\* because its file is missing.
C30_LoadKeepsReferences ==
    [][(LoadServed /\ \E d \in db["user"] : d.id = 1) =>
          /\ last'.status = 200
          /\ LabelReferencesIntact(db')]_vars

\* What the code does: a label record of a known code that names an image
\* skipped for its missing file is added like any other; the foreign key
\* image_id rejects it, the load raises, and no label of that file is stored.
C30_LabelOfMissingImageAbortsLoad ==
    [][(LoadServed /\ \E d \in db["user"] : d.id = 1) =>
          LET seed == SeedNamed(last'.seed)
              missing == LabelsOfMissingImages(db, seed, "predicted_labels")
                            \cup LabelsOfMissingImages(db, seed, "doctor_labels")
          IN  /\ last'.status = (IF missing # {} THEN 500 ELSE 200)
              /\ missing # {} =>
                    /\ db'["doctorlabel"] = db["doctorlabel"]
                    /\ LabelsOfMissingImages(db, seed, "predicted_labels") # {}
                          => db'["predictedlabel"] = db["predictedlabel"]
              /\ LabelReferencesIntact(db')]_vars

\* ------------------------------------------------------------------------
\* The patient list (GET /patients)
\* ------------------------------------------------------------------------
\* The database after the patients of a seed were loaded: there is no
\* request that creates a patient.
InitList ==
    /\ \E n \in 0 .. MaxListed :
          db = [EmptyDb EXCEPT !["patient"] = {[id |-> i] : i \in 1 .. n}]
    /\ seq = InitSeq
    /\ clock = 0
    /\ last = Idle
    /\ infer = Idle
    /\ sampler = Idle
    /\ sess = Idle

\* GET /patients: the handler returns the list and writes nothing.
ListPatients ==
    /\ clock < MaxOps
    /\ LET u == Begin(db, seq)
       IN  Finish([u |-> Close(u), status |-> 200, op |-> "list_patients_with_status",
                   patients |-> list_patients_with_status(u.st)])

NextList ==
    \/ CreateExamWithImage
    \/ UpdateDoctorLabels
    \/ ListPatients

SpecList == InitList /\ [][NextList]_vars

Listed == last.op = "list_patients_with_status"

\* C27: in the list that list_patients_with_status returns, every patient
\* that needs review comes before every patient that does not, and within
\* each of the two groups the patients are ordered by last follow-up date,
\* latest first.
C27_NeedingReviewFirst ==
    Listed =>
        \A i, j \in DOMAIN last.patients :
            i < j =>
                LET a == last.patients[i]
                    b == last.patients[j]
                IN  /\ b.needs_review => a.needs_review
                    /\ a.needs_review = b.needs_review =>
                           a.last_follow_up_date >= b.last_follow_up_date

\* What the code does: the patients that do not need review come first.
C27_ReviewedFirst ==
    Listed =>
        \A i, j \in DOMAIN last.patients :
            i < j =>
                LET a == last.patients[i]
                    b == last.patients[j]
                IN  /\ a.needs_review => b.needs_review
                    /\ a.needs_review = b.needs_review =>
                           a.last_follow_up_date >= b.last_follow_up_date

\* A list of a patient that needs review and one that does not.
C27_Witness ==
    /\ Listed
    /\ \E i, j \in DOMAIN last.patients :
          last.patients[i].needs_review /\ ~last.patients[j].needs_review

====
